---- MODULE Spec2Model ----
(***************************************************************************)
(* Adaptive recommendation engine of SkillGap: the LinUCB, Thompson and    *)
(* neural bandits and the hybrid ensemble that fans observations out to    *)
(* them and re-weights them by meta-learning.                              *)
(*                                                                         *)
(* Numbers.  The program computes in float64.  Here every real is a        *)
(* fixed-point integer: weights, scores, samples and network parameters    *)
(* count units of 1/ONE, rewards count units of 1/RS, np.exp returns units *)
(* of 1/ES.  Contexts have integer components, so LinUCB's A is an integer *)
(* matrix and b counts units of 1/RS.  Division rounds down (\div).        *)
(***************************************************************************)
EXTENDS Integers, Sequences, FiniteSets, TLC

\* ------------------------------------------------------------------------
\* Fixed-point units
\* ------------------------------------------------------------------------
ONE == 10000
RS == 4
ES == 100

\* ------------------------------------------------------------------------
\* Bounds of the model
\* ------------------------------------------------------------------------
MaxUpdates == 2
MaxTSUpdates == 2
MaxPulls == 1
MaxTrace == 7
MaxMetaUpdates == 120
MaxNeuralUpdates == 2
MaxCandidates == 3
MaxColdStarts == 2
MaxSharedUpdates == 3

\* update calls two callers of one engine begin
MaxSharedMeta == 22

\* hybrid updates with observations of both arms
MaxFanOut == 3
RunLen == 60

\* ------------------------------------------------------------------------
\* Program constants
\* ------------------------------------------------------------------------
n_features == 2
hidden_size == 2
LinAlpha == 1
MetaPeriodOff == 20 - 1
MetaPeriod == 20
MetaWindow == 100
MetaRatePctOff == 10 + 10

MetaRatePct == 10
NeuralLrPct == 5
BestWindow == 50
SoftmaxFactor == 5
NeuralEpochs == 5
NeuralDefaultEpochs == 10
AlternativesTopK == 3
HistoryThresholdOff == 100 - 1
HistoryThreshold == 100

Arms == <<"Python", "SQL">>
ArmSet == {Arms[i] : i \in 1..Len(Arms)}
Algos == <<"linucb", "thompson", "neural">>
AlgoSet == {Algos[i] : i \in 1..Len(Algos)}

VARIABLES
    A, b,                                   \* LinUCB: per-arm matrix and vector
    alpha, beta, pulls, rewards_history,    \* Thompson: per-arm Beta parameters
    networks, updates, history,             \* NeuralUCB: per-arm network
    weights, performance, weight_history,   \* hybrid ensemble
    expl,                                   \* explanation last returned by the hybrid
    file, loaded,                           \* saved model file; NeuralUCB built from it
    objective_weights, market_demand_scores, \* multi-objective reward calculator
    kmeans, cluster_profiles,               \* cold-start solver: fitted clustering
    cluster_bandit_params,                  \* cold-start solver: stored snapshots
    cold_start_history,                     \* cold-start solver: event log
    inflight, completed,                    \* calls in progress on an engine that
                                            \* several callers share, and the
                                            \* updates that have returned
    args, out,                              \* arguments and result of the last call
                                            \* of a component outside the bandits
    ret                                     \* outcome of the last call

vars == <<A, b, alpha, beta, pulls, rewards_history, networks, updates,
          history, weights, performance, weight_history, expl, file, loaded,
          objective_weights, market_demand_scores, kmeans, cluster_profiles,
          cluster_bandit_params, cold_start_history, inflight, completed,
          args, out, ret>>
linVars == <<A, b>>
tsVars == <<alpha, beta, pulls, rewards_history>>
nnVars == <<networks, updates, history>>
hybVars == <<weights, performance, weight_history, expl>>
\* state kept outside the engine and its three bandits
moVars == <<objective_weights, market_demand_scores>>
coldVars == <<kmeans, cluster_profiles, cluster_bandit_params, cold_start_history>>
sharedVars == <<inflight, completed>>
sideVars == <<file, loaded, moVars, coldVars, sharedVars, args, out>>
\* everything but the cold-start solver and the last call
engineVars == <<linVars, tsVars, nnVars, hybVars, file, loaded, moVars, sharedVars>>

\* ------------------------------------------------------------------------
\* Arithmetic helpers
\* ------------------------------------------------------------------------
Abs(x) == IF x < 0 THEN -x ELSE x

Min(x, y) == IF x < y THEN x ELSE y

Max(x, y) == IF x > y THEN x ELSE y

RECURSIVE SumSeq(_)
SumSeq(s) == IF s = <<>> THEN 0 ELSE Head(s) + SumSeq(Tail(s))

\* s[-k:] of a Python list
LastK(s, k) == IF Len(s) <= k THEN s ELSE SubSeq(s, Len(s) - k + 1, Len(s))

\* np.mean of a list of rewards (units 1/RS), in units of 1/ONE
Mean(s) == (SumSeq(s) * ONE) \div (Len(s) * RS)

RECURSIVE SqrtSearch(_, _, _)
SqrtSearch(v, lo, hi) ==
    IF lo >= hi THEN lo
    ELSE LET mid == (lo + hi + 1) \div 2
         IN IF mid * mid <= v THEN SqrtSearch(v, mid, hi)
            ELSE SqrtSearch(v, lo, mid - 1)

\* floor of the square root of an integer v >= 0
ISqrt(v) == SqrtSearch(v, 0, 46340)

\* np.sqrt of a value in units of 1/ONE, in units of 1/ONE
Sqrt(v) == IF v <= 200000 THEN ISqrt(v * ONE) ELSE ISqrt(v) * ISqrt(ONE)

\* e^n for n = 0..7 in units of 1/ES, and e^-n for n = 1..5 in units of 1/10^6
EPos == <<100, 271, 738, 2008, 5459, 14841, 40342, 109663>>
ENeg == <<367879, 135335, 49787, 18315, 6737>>

RECURSIVE ExpHorner(_, _, _)
ExpHorner(f, k, t) ==
    IF k = 0 THEN t ELSE ExpHorner(f, k - 1, ONE + (f * t) \div (k * ONE))

\* e^f for 0 <= f < 1 (units of 1/ONE on both sides), Taylor series to f^8
ExpFrac(f) == ExpHorner(f, 8, ONE)

\* np.exp of a value in units of 1/ONE, in units of 1/ES
Exp(x) ==
    LET n == x \div ONE
        ef == ExpFrac(x % ONE)
    IN IF n < 0 THEN (ENeg[-n] * (ef \div 10)) \div ((ONE \div 10) * (1000000 \div ES))
       ELSE (EPos[n + 1] * (ef \div 10)) \div (ONE \div 10)

\* ------------------------------------------------------------------------
\* Vectors and matrices
\* ------------------------------------------------------------------------
Identity(n) == [i \in 1..n |-> [j \in 1..n |-> IF i = j THEN 1 ELSE 0]]

Zeros(n) == [i \in 1..n |-> 0]

Dot(x, y) == SumSeq([i \in 1..Len(x) |-> x[i] * y[i]])

MatVec(M, x) == [i \in 1..Len(M) |-> Dot(M[i], x)]

Trace(M) == SumSeq([i \in 1..Len(M) |-> M[i][i]])

\* determinant and adjugate of a 2 x 2 matrix: np.linalg.inv(M) = Adj(M) / Det(M)
Det(M) == M[1][1] * M[2][2] - M[1][2] * M[2][1]

Adj(M) == << <<M[2][2], -M[1][2]>>, <<-M[2][1], M[1][1]>> >>

\* a context as the caller passes it: a numpy array of some shape
Col(v) == [shape |-> "col", v |-> v]

Flat(v) == [shape |-> "flat", v |-> v]

\* a 2-D array of one row
Row(v) == [shape |-> "row", v |-> v]

\* a Python dict as the sequence of its <<key, value>> pairs in insertion order
Keys(d) == [i \in 1..Len(d) |-> d[i][1]]

RECURSIVE ArgMaxLastFrom(_, _, _)
ArgMaxLastFrom(s, i, best) ==
    IF i > Len(s) THEN best
    ELSE ArgMaxLastFrom(s, i + 1, IF s[i] >= s[best] THEN i ELSE best)

\* the index of the last entry of maximal value
ArgMaxLast(s) == ArgMaxLastFrom(s, 2, 1)

RECURSIVE ArgMaxFrom(_, _, _)
ArgMaxFrom(s, i, best) ==
    IF i > Len(s) THEN best
    ELSE ArgMaxFrom(s, i + 1, IF s[i] > s[best] THEN i ELSE best)

\* max(d, key=d.get) over the values s of a non-empty dict: the index of the
\* first entry whose value no later entry exceeds
ArgMax(s) == ArgMaxFrom(s, 2, 1)

NoRet == [op |-> "init", arm |-> "none", err |-> "none", contexts |-> <<>>,
          scores |-> <<>>, algo |-> "none"]

\* ------------------------------------------------------------------------
\* LinUCB (src/bandit/linucb.py)
\* ------------------------------------------------------------------------
\* the score without its exploration term
LinScoreNoBonus(Aa, ba, c) ==
    IF Det(Aa) = 0 THEN [err |-> "LinAlgError", p |-> 0]
    ELSE IF c.shape # "col" THEN [err |-> "IndexError", p |-> 0]
    ELSE [err |-> "none",
          p |-> (Dot(MatVec(Adj(Aa), ba), c.v) * ONE) \div (Det(Aa) * RS)]

\* theta.T @ x + alpha * sqrt(x.T @ A_inv @ x) for one arm; c is the context.
\* A column context gives a 1 x 1 array and p[0][0] is the score.  A flat
\* context gives a 1-element array, and p[0][0] raises IndexError.  A singular
\* A raises LinAlgError in np.linalg.inv.
LinScore(Aa, ba, c) ==
    LET x == c.v
        det == Det(Aa)
        adj == Adj(Aa)
    IN IF det = 0 THEN [err |-> "LinAlgError", p |-> 0]
       ELSE IF c.shape = "row" THEN [err |-> "ValueError", p |-> 0]
       ELSE LET exploit == (Dot(MatVec(adj, ba), x) * ONE) \div (det * RS)
                q == (Dot(x, MatVec(adj, x)) * ONE) \div det
            IN IF q < 0 THEN [err |-> "nan", p |-> 0]
               ELSE IF c.shape = "flat" THEN [err |-> "IndexError", p |-> 0]
               ELSE [err |-> "none", p |-> exploit + LinAlpha * Sqrt(q)]

RECURSIVE FirstError(_, _)
FirstError(rs, i) ==
    IF i > Len(rs) THEN "none"
    ELSE IF rs[i].err # "none" THEN rs[i].err
    ELSE FirstError(rs, i + 1)

\* LinUCB.recommend(contexts): the returned arm, or the exception raised
LinRecommendResult(contexts) ==
    LET rs == [i \in 1..Len(contexts) |->
                  LinScore(A[contexts[i][1]], b[contexts[i][1]], contexts[i][2])]
        scores == [i \in 1..Len(contexts) |-> rs[i].p]
        e == FirstError(rs, 1)
    IN IF e # "none" THEN [arm |-> "none", err |-> e, scores |-> <<>>]
       ELSE IF Len(contexts) = 0
            THEN [arm |-> "none", err |-> "ValueError", scores |-> <<>>]
       ELSE [arm |-> contexts[ArgMax(scores)][1], err |-> "none", scores |-> scores]

\* the update with the outer product subtracted
LinUpdateResultMinus(Aa, ba, r, c) ==
    [A |-> [i \in 1..Len(ba) |-> [j \in 1..Len(ba) |-> Aa[i][j] - c.v[i] * c.v[j]]],
     b |-> [i \in 1..Len(ba) |-> ba[i] + r * c.v[i]],
     err |-> "none"]

\* the update that adds the outer product and leaves b as it is
LinUpdateResultNoB(Aa, ba, r, c) ==
    [A |-> [i \in 1..Len(ba) |-> [j \in 1..Len(ba) |-> Aa[i][j] + c.v[i] * c.v[j]]],
     b |-> ba,
     err |-> "none"]

\* LinUCB.update(arm, reward, context) on one arm's (A, b).
\* context @ context.T is the outer product for a column, the 1 x 1 squared
\* norm for a row, the scalar squared norm for a flat array; numpy broadcasts
\* a scalar or 1 x 1 operand over A.  Then b += reward * context broadcasts
\* only a column of n_features or of 1 component; any other shape raises
\* ValueError with A already changed.
LinUpdateResult(Aa, ba, r, c) ==
    LET x == c.v
        n == Len(ba)
        outer == [i \in 1..n |-> [j \in 1..n |-> x[i] * x[j]]]
        bcast == [i \in 1..n |-> [j \in 1..n |-> Dot(x, x)]]
        plus(M, N) == [i \in 1..n |-> [j \in 1..n |-> M[i][j] + N[i][j]]]
    IN IF c.shape = "col" /\ Len(x) = n
       THEN [A |-> plus(Aa, outer), b |-> [i \in 1..n |-> ba[i] + r * x[i]],
             err |-> "none"]
       ELSE IF c.shape = "col" /\ Len(x) = 1
       THEN [A |-> plus(Aa, bcast), b |-> [i \in 1..n |-> ba[i] + r * x[1]],
             err |-> "none"]
       ELSE IF c.shape = "col"
       THEN [A |-> Aa, b |-> ba, err |-> "ValueError"]
       ELSE IF Len(x) = 1 /\ n = 1
       THEN [A |-> plus(Aa, bcast), b |-> [i \in 1..n |-> ba[i] + r * x[1]],
             err |-> "none"]
       ELSE [A |-> plus(Aa, bcast), b |-> ba, err |-> "ValueError"]

\* ------------------------------------------------------------------------
\* Thompson sampling (src/bandit/thompson_sampling.py)
\* ------------------------------------------------------------------------
\* np.random.beta(a, b) raises ValueError unless a > 0 and b > 0
BetaOk(arm) == alpha[arm] > 0 /\ beta[arm] > 0

\* recommend that falls back to the first arm when there is no candidate
TSRecommendResultGuess(candidates, samples) ==
    IF \E i \in 1..Len(candidates) : ~BetaOk(candidates[i])
    THEN [arm |-> "none", err |-> "ValueError"]
    ELSE IF Len(candidates) = 0 THEN [arm |-> Arms[1], err |-> "none"]
    ELSE [arm |-> candidates[ArgMax(samples)], err |-> "none"]

\* ThompsonSamplingBandit.recommend(candidate_skills); samples[i] is the value
\* np.random.beta returns for the i-th candidate
TSRecommendResult(candidates, samples) ==
    IF \E i \in 1..Len(candidates) : ~BetaOk(candidates[i])
    THEN [arm |-> "none", err |-> "ValueError"]
    ELSE IF Len(candidates) = 0 THEN [arm |-> "none", err |-> "ValueError"]
    ELSE [arm |-> candidates[ArgMax(samples)], err |-> "none"]

\* ------------------------------------------------------------------------
\* Neural UCB (src/bandit/neural_ucb.py)
\* ------------------------------------------------------------------------
Hidden == 1..hidden_size

\* _forward(x, arm): x reshaped to 1 x n; hidden = relu(x @ W1 + b1);
\* pred = hidden @ W2 + b2
Forward(net, x) ==
    LET z1 == [j \in Hidden |->
                  SumSeq([i \in 1..Len(x) |-> x[i] * net.W1[i][j]]) + net.b1[j]]
        a1 == [j \in Hidden |-> Max(0, z1[j])]
        z2 == SumSeq([j \in Hidden |-> a1[j] * net.W2[j]]) \div ONE + net.b2
    IN [pred |-> z2, z1 |-> z1, a1 |-> a1]

\* self.lr * d
Lr(d) == (NeuralLrPct * d) \div 100

\* one epoch of update: forward pass, backpropagation, gradient step
Epoch(net, x, r) ==
    LET f == Forward(net, x)
        d_pred == 2 * (f.pred - r)
        d_W2 == [j \in Hidden |-> (f.a1[j] * d_pred) \div ONE]
        d_a1 == [j \in Hidden |-> (d_pred * net.W2[j]) \div ONE]
        d_z1 == [j \in Hidden |-> IF f.z1[j] > 0 THEN d_a1[j] ELSE 0]
    IN [W2 |-> [j \in Hidden |-> net.W2[j] - Lr(d_W2[j])],
        b2 |-> net.b2 - Lr(d_pred),
        W1 |-> [i \in 1..Len(x) |->
                   [j \in Hidden |-> net.W1[i][j] - Lr(x[i] * d_z1[j])]],
        b1 |-> [j \in Hidden |-> net.b1[j] - Lr(d_z1[j])]]

RECURSIVE Train(_, _, _, _)
Train(net, x, r, n_epochs) ==
    IF n_epochs = 0 THEN net
    ELSE CHOOSE trained \in {Train(e, x, r, n_epochs - 1) : e \in {Epoch(net, x, r)}} :
             TRUE

\* a reward (units 1/RS) in units of 1/ONE
Real(r) == (r * ONE) \div RS

\* exploration_bonus / np.sqrt(max(updates, 1))
Uncertainty(n_updates) == (ONE * ONE) \div Sqrt(Max(n_updates, 1) * ONE)

\* NeuralUCB.recommend(contexts, exploration_bonus = 1.0) of an instance with
\* the given networks and update counters
NeuralRecommendOn(nets, upd, contexts) ==
    IF \E i \in 1..Len(contexts) : Len(contexts[i][2].v) # n_features
    THEN [arm |-> "none", err |-> "ValueError", scores |-> <<>>]
    ELSE IF Len(contexts) = 0
    THEN [arm |-> "none", err |-> "ValueError", scores |-> <<>>]
    ELSE LET scores == [i \in 1..Len(contexts) |->
                 Forward(nets[contexts[i][1]], contexts[i][2].v).pred
                 + Uncertainty(upd[contexts[i][1]])]
         IN [arm |-> contexts[ArgMax(scores)][1], err |-> "none", scores |-> scores]

NeuralRecommendResult(contexts) == NeuralRecommendOn(networks, updates, contexts)

\* no model file written yet
NoFile == [saved |-> FALSE, data |-> <<>>]

\* no second instance constructed yet
NoLoaded == [made |-> FALSE, networks |-> <<>>, updates |-> <<>>, history |-> <<>>]

\* model_data of save_model: per arm the four parameter arrays W1, b1, W2, b2
\* as nested lists, and nothing else of the instance
ModelData(nets) ==
    [a \in ArmSet |-> [W1 |-> nets[a].W1, b1 |-> nets[a].b1,
                        W2 |-> nets[a].W2, b2 |-> nets[a].b2]]

\* NeuralUCB(arms, n_features, hidden_size) with the drawn initial networks,
\* then load_model(filepath): the four arrays of every arm of the file
\* replace the drawn ones; updates and history stay as constructed
LoadedInstance(fresh, data) ==
    [made |-> TRUE,
     networks |-> [a \in ArmSet |->
                      IF a \in DOMAIN data
                      THEN [W1 |-> data[a].W1, b1 |-> data[a].b1,
                            W2 |-> data[a].W2, b2 |-> data[a].b2]
                      ELSE fresh[a]],
     updates |-> [a \in ArmSet |-> 0],
     history |-> [a \in ArmSet |-> <<>>]]

\* ------------------------------------------------------------------------
\* Hybrid ensemble (src/bandit/hybrid_bandit.py)
\* ------------------------------------------------------------------------
\* _ensure_column_vector(x): a 1-D array becomes a column, a 2-D array is kept
EnsureColumnVector(c) == IF c.shape = "flat" THEN Col(c.v) ELSE c

\* the LinUCB score of _weighted_voting: inverse of A + 1e-6 * I, result
\* converted by float().  1e-6 is below the fixed-point unit, so the inverse
\* is taken of A when A is invertible.
VotingLinScore(Aa, ba, c) ==
    LET x == c.v
        det == Det(Aa)
        adj == Adj(Aa)
    IN IF det = 0 THEN [err |-> "illconditioned", p |-> 0]
       ELSE IF c.shape = "row" \/ Len(x) # Len(ba)
       THEN [err |-> "ValueError", p |-> 0]
       ELSE LET exploit == (Dot(MatVec(adj, ba), x) * ONE) \div (det * RS)
                q == (Dot(x, MatVec(adj, x)) * ONE) \div det
            IN IF q < 0 THEN [err |-> "nan", p |-> 0]
               ELSE [err |-> "none", p |-> exploit + LinAlpha * Sqrt(q)]

\* the three scores and the ensemble score of one candidate
VotingScores(skill, context, sample) ==
    LET c == EnsureColumnVector(context)
        lin == VotingLinScore(A[skill], b[skill], c)
        neural_score == Forward(networks[skill], c.v).pred
                        + Uncertainty(updates[skill])
    IN IF lin.err # "none" THEN [err |-> lin.err]
       ELSE IF ~BetaOk(skill) THEN [err |-> "ValueError"]
       ELSE [err |-> "none", linucb |-> lin.p, thompson |-> sample,
             neural |-> neural_score,
             ensemble |-> (weights["linucb"] * lin.p
                           + weights["thompson"] * sample
                           + weights["neural"] * neural_score) \div ONE]

\* the weights entry of an explanation that holds the engine's own dict
AliasOfWeights == [ref |-> "self.weights", val |-> weights]

\* self.weights.copy(): a new dict holding the current values
CopyOfWeights == [ref |-> "copy", val |-> weights]

\* the weights a returned explanation shows now
ExplWeights == IF expl.weights.ref = "self.weights" THEN weights
               ELSE expl.weights.val

\* of an explanation the model keeps the method and the weights entry; the
\* recommended skill, the selected algorithm and the scores are in ret
NoExpl == [method |-> "none", weights |-> [ref |-> "none", val |-> <<>>]]

\* _weighted_voting(contexts)
WeightedVotingResult(contexts, samples) ==
    LET rs == [i \in 1..Len(contexts) |->
                  VotingScores(contexts[i][1], contexts[i][2], samples[i])]
        e == FirstError(rs, 1)
    IN IF e # "none" THEN [err |-> e]
       ELSE IF Len(contexts) = 0 THEN [err |-> "ValueError"]
       ELSE LET skill_scores == [i \in 1..Len(contexts) |-> rs[i].ensemble]
                best == ArgMax(skill_scores)
            IN [err |-> "none", arm |-> contexts[best][1], scores |-> skill_scores,
                pulled |-> FALSE, algo |-> "ensemble",
                expl |-> [method |-> "weighted_voting",
                          weights |-> CopyOfWeights]]

\* the call of one base bandit's recommend from the hybrid
Delegate(algo, contexts, samples) ==
    IF algo = "linucb"
    THEN LET r == LinRecommendResult(contexts)
         IN [err |-> r.err, arm |-> r.arm, pulled |-> FALSE]
    ELSE IF algo = "thompson"
    THEN LET r == TSRecommendResult(Keys(contexts), samples)
         IN [err |-> r.err, arm |-> r.arm, pulled |-> r.err = "none"]
    ELSE LET r == NeuralRecommendResult(contexts)
         IN [err |-> r.err, arm |-> r.arm, pulled |-> FALSE]

\* the recent performance of one algorithm in _best_performer
RecentPerformance(algo) ==
    IF Len(performance[algo]) = 0 THEN ONE \div 2
    ELSE Mean(LastK(performance[algo], BestWindow))

\* _best_performer(contexts)
BestPerformerResult(contexts, samples) ==
    LET perf == [i \in 1..Len(Algos) |-> RecentPerformance(Algos[i])]
        best_algo == Algos[ArgMax(perf)]
        d == Delegate(best_algo, contexts, samples)
    IN IF d.err # "none" THEN [err |-> d.err]
       ELSE [err |-> "none", arm |-> d.arm, scores |-> perf,
             pulled |-> d.pulled, algo |-> best_algo,
             expl |-> [NoExpl EXCEPT !.method = "best_performer"]]

\* np.var(x) > 0.5 for the components of x
VarianceAboveHalf(x) ==
    2 * (Len(x) * Dot(x, x) - SumSeq(x) * SumSeq(x)) > Len(x) * Len(x)

\* _context_dependent(contexts)
ContextDependentResult(contexts, samples) ==
    IF Len(contexts) = 0 THEN [err |-> "IndexError"]
    ELSE LET algo == IF VarianceAboveHalf(contexts[1][2].v) THEN "thompson"
                     ELSE IF Len(history[contexts[1][1]]) > HistoryThreshold
                     THEN "neural"
                     ELSE "linucb"
             d == Delegate(algo, contexts, samples)
         IN IF d.err # "none" THEN [err |-> d.err]
            ELSE [err |-> "none", arm |-> d.arm, scores |-> <<>>,
                  pulled |-> d.pulled, algo |-> algo,
                  expl |-> [NoExpl EXCEPT !.method = "context_dependent"]]

\* recommend(contexts, method)
HybridRecommendResult(contexts, method, samples) ==
    IF method = "best_performer" THEN BestPerformerResult(contexts, samples)
    ELSE IF method = "context_dependent"
    THEN ContextDependentResult(contexts, samples)
    ELSE WeightedVotingResult(contexts, samples)

\* the performance taken as the mean of whatever the window holds
RecentPerfMeanOnly(w, perf, algo) == Mean(LastK(perf[algo], MetaWindow))

\* the performance an algorithm enters the softmax with
RecentPerf(w, perf, algo) ==
    IF Len(perf[algo]) >= MetaWindow THEN Mean(LastK(perf[algo], MetaWindow))
    ELSE w[algo]

SumOver(f) == SumSeq([i \in 1..Len(Algos) |-> f[Algos[i]]])

\* the softmax weights of _meta_learn
Softmax(recent_perf) ==
    LET exp_vals == [k \in AlgoSet |-> Exp(recent_perf[k] * SoftmaxFactor)]
        total == SumOver(exp_vals)
    IN [k \in AlgoSet |-> (exp_vals[k] * ONE) \div total]

\* the smooth update of _meta_learn
Smooth(w, new_weights) ==
    [k \in AlgoSet |->
        ((100 - MetaRatePct) * w[k] + MetaRatePct * new_weights[k]) \div 100]

\* _meta_learn without its normalisation
NormalizeSkipped(w) == w

\* the normalisation of _meta_learn
Normalize(w) == [k \in AlgoSet |-> (w[k] * ONE) \div SumOver(w)]

\* _meta_learn(): the new weights from the weights and the histories
MetaLearn(w, perf) ==
    Normalize(Smooth(w, Softmax([k \in AlgoSet |-> RecentPerf(w, perf, k)])))

\* ------------------------------------------------------------------------
\* Multi-objective reward calculator (src/bandit/multi_objective.py)
\* ------------------------------------------------------------------------
Clip(x, lo, hi) == Max(lo, Min(x, hi))

\* skills_df: the rows of the skill metadata table; learning_time in hours,
\* difficulty in units of 1/ONE
SkillMetadata ==
    [Python     |-> [learning_time |-> 80, difficulty |-> (3 * ONE) \div 10,
                     category |-> "Programming"],
     SQL        |-> [learning_time |-> 60, difficulty |-> (3 * ONE) \div 10,
                     category |-> "Database"],
     Django     |-> [learning_time |-> 120, difficulty |-> ONE \div 2,
                     category |-> "Backend"],
     Kubernetes |-> [learning_time |-> 250, difficulty |-> (8 * ONE) \div 10,
                     category |-> "Orchestration"]]

KnownSkills == DOMAIN SkillMetadata

\* skills a caller may name; Rust and Go have no row in the table
Skills == KnownSkills \cup {"Rust", "Go"}

Objectives ==
    <<"career_readiness", "time_efficiency", "difficulty_match",
      "market_demand", "prerequisite_fit">>

ObjectiveSet == {Objectives[i] : i \in 1..Len(Objectives)}

\* the default objective weights, in percent
DefaultObjectiveWeights ==
    [career_readiness |-> 40, time_efficiency |-> 20, difficulty_match |-> 20,
     market_demand |-> 15, prerequisite_fit |-> 5]

\* category_demand.get(category, 0.50) of _calculate_market_demand
CategoryDemand(category) ==
    CASE category = "AI" -> (95 * ONE) \div 100
      [] category = "Cloud" -> (90 * ONE) \div 100
      [] category = "Programming" -> (85 * ONE) \div 100
      [] category = "Data Science" -> (88 * ONE) \div 100
      [] category = "Frontend" -> (75 * ONE) \div 100
      [] category = "Backend" -> (82 * ONE) \div 100
      [] category = "DevOps" -> (85 * ONE) \div 100
      [] category = "Database" -> (70 * ONE) \div 100
      [] category = "Mobile" -> (65 * ONE) \div 100
      [] category = "Security" -> (80 * ONE) \div 100
      [] category = "Management" -> (60 * ONE) \div 100
      [] category = "Design" -> (55 * ONE) \div 100
      [] OTHER -> (50 * ONE) \div 100

\* _calculate_market_demand(): per row of the table the category's demand
\* plus the drawn noise, clipped to [0, 1]
CalculateMarketDemand(noise) ==
    [s \in KnownSkills |->
        Clip(CategoryDemand(SkillMetadata[s].category) + noise[s], 0, ONE)]

\* values np.random.normal(0, 0.05) may return
NormalDraws == {-(ONE \div 20), ONE \div 20}

\* the market demand tables the model draws from: one noise value per table
DemandDraws ==
    {CalculateMarketDemand([s \in KnownSkills |-> e]) : e \in NormalDraws}

FirstDemand == CalculateMarketDemand([s \in KnownSkills |-> ONE \div 20])

\* MultiObjectiveRewardCalculator.__init__(skills_df)
ConstructCalculator(demand) ==
    /\ objective_weights = DefaultObjectiveWeights
    /\ market_demand_scores = demand
    /\ args = <<>>
    /\ out = <<>>

\* learner.get('learning_speed', 0.5)
LearningSpeed(learner) ==
    IF "learning_speed" \in DOMAIN learner THEN learner.learning_speed
    ELSE ONE \div 2

\* set(learner.get('known_skills', '').split(','))
KnownSkillsOf(learner) ==
    IF "known_skills" \in DOMAIN learner THEN learner.known_skills ELSE {""}

\* _career_readiness_score(skill, learner, target_role_skills)
CareerReadinessScore(skill, learner, target_role_skills) ==
    IF \A i \in 1..Len(target_role_skills) : target_role_skills[i] # skill
    THEN (3 * ONE) \div 10
    ELSE LET n == Len(target_role_skills)
             position == CHOOSE i \in 0..(n - 1) :
                            /\ target_role_skills[i + 1] = skill
                            /\ \A j \in 1..i : target_role_skills[j] # skill
             criticality == ONE - (position * ONE) \div n
             known_count == Cardinality(KnownSkillsOf(learner)
                               \cap {target_role_skills[i] : i \in 1..n})
             completeness == (known_count * ONE) \div n
         IN Clip(ONE \div 2 + (3 * criticality) \div 10
                   + (2 * (ONE - completeness)) \div 10, 0, ONE)

\* the time score of a learning time in hours: 1 - min(effective_time / 500, 1)
TimeEfficiencyOf(learning_time, learner) ==
    LET effective_time == (learning_time * ONE)
                             \div Max(LearningSpeed(learner), (3 * ONE) \div 10)
    IN ONE - Min((effective_time * ONE) \div 500, ONE)

\* _time_efficiency_score(skill, learner): metadata.get('learning_time', 150)
TimeEfficiencyScore(skill, learner) ==
    TimeEfficiencyOf(IF skill \in KnownSkills
                     THEN SkillMetadata[skill].learning_time ELSE 150, learner)

\* the match score of a difficulty: exp(-(diff ** 2) / 0.2)
DifficultyMatchOf(difficulty, learner) ==
    LET diff == Abs(difficulty - LearningSpeed(learner))
    IN Exp(-((diff * diff * 5) \div ONE)) * (ONE \div ES)

\* _difficulty_match_score(skill, learner): metadata.get('difficulty', 0.5)
DifficultyMatchScore(skill, learner) ==
    DifficultyMatchOf(IF skill \in KnownSkills
                      THEN SkillMetadata[skill].difficulty ELSE ONE \div 2, learner)

\* _market_demand_score(skill)
MarketDemandScore(skill) ==
    IF skill \in DOMAIN market_demand_scores THEN market_demand_scores[skill]
    ELSE ONE \div 2

\* _get_prerequisites(skill)
Prerequisites(skill) ==
    CASE skill = "Machine Learning" -> {"Python", "Statistics", "Mathematics"}
      [] skill = "Deep Learning" -> {"Machine Learning", "Python", "Linear Algebra"}
      [] skill = "TensorFlow" -> {"Deep Learning", "Python"}
      [] skill = "PyTorch" -> {"Deep Learning", "Python"}
      [] skill = "React" -> {"JavaScript", "HTML", "CSS"}
      [] skill = "Angular" -> {"JavaScript", "TypeScript", "HTML", "CSS"}
      [] skill = "Django" -> {"Python"}
      [] skill = "Flask" -> {"Python"}
      [] skill = "Spring Boot" -> {"Java"}
      [] skill = "Kubernetes" -> {"Docker", "Linux"}
      [] skill = "Terraform" -> {"Cloud Architecture", "DevOps"}
      [] OTHER -> {}

\* _prerequisite_fit_score(skill, learner, resume_data, github_data) with no
\* resume and no GitHub data
PrerequisiteFitScore(skill, learner) ==
    IF Prerequisites(skill) = {} THEN ONE
    ELSE (Cardinality(Prerequisites(skill) \cap KnownSkillsOf(learner)) * ONE)
            \div Cardinality(Prerequisites(skill))

\* the objectives dict of calculate_multi_objective_reward
ObjectiveScores(skill, learner, target_role_skills) ==
    [career_readiness |-> CareerReadinessScore(skill, learner, target_role_skills),
     time_efficiency  |-> TimeEfficiencyScore(skill, learner),
     difficulty_match |-> DifficultyMatchScore(skill, learner),
     market_demand    |-> MarketDemandScore(skill),
     prerequisite_fit |-> PrerequisiteFitScore(skill, learner)]

\* calculate_multi_objective_reward(skill, learner, target_role_skills = ...):
\* the weighted sum plus the drawn noise, clipped to [0, 1], and the objectives
CalculateMultiObjectiveReward(skill, learner, target_role_skills, noise) ==
    LET objectives == ObjectiveScores(skill, learner, target_role_skills)
        total == SumSeq([i \in 1..Len(Objectives) |->
                     objective_weights[Objectives[i]] * objectives[Objectives[i]]])
                 \div 100
    IN [reward |-> Clip(total + noise, 0, ONE), objectives |-> objectives]

\* skill_objectives of pareto_optimal_selection: per candidate the skill, its
\* objectives and its reward; noise[i] is the draw of the i-th call
SkillObjectives(candidate_skills, learner, noise) ==
    [i \in 1..Len(candidate_skills) |->
        LET r == CalculateMultiObjectiveReward(candidate_skills[i], learner,
                                               <<>>, noise[i])
        IN [skill |-> candidate_skills[i], objectives |-> r.objectives,
            reward |-> r.reward]]

\* domination by objectives that are all at least as good, none required
\* to be strictly better
WeaklyDominates(obj_j, obj_i) ==
    \A o \in DOMAIN obj_i : obj_j[o] >= obj_i[o]

\* all_better and any_strictly_better: obj_j dominates obj_i
Dominates(obj_j, obj_i) ==
    /\ \A o \in DOMAIN obj_i : obj_j[o] >= obj_i[o]
    /\ \E o \in DOMAIN obj_i : obj_j[o] > obj_i[o]

\* the Pareto front, in the order of the candidates
RECURSIVE ParetoFront(_, _)
ParetoFront(so, i) ==
    IF i > Len(so) THEN <<>>
    ELSE IF \E j \in 1..Len(so) : j # i /\ Dominates(so[j].objectives, so[i].objectives)
    THEN ParetoFront(so, i + 1)
    ELSE <<so[i]>> \o ParetoFront(so, i + 1)

\* e placed into the list s, sorted by non-increasing reward, behind the
\* entries of equal reward
InsertByReward(s, e) ==
    LET k == Cardinality({i \in 1..Len(s) : s[i].reward >= e.reward})
    IN SubSeq(s, 1, k) \o <<e>> \o SubSeq(s, k + 1, Len(s))

\* list.sort(key=reward, reverse=True): stable, so entries of equal reward
\* keep their order
RECURSIVE SortByReward(_)
SortByReward(s) ==
    IF Len(s) = 0 THEN <<>>
    ELSE InsertByReward(SortByReward(SubSeq(s, 1, Len(s) - 1)), s[Len(s)])

\* pareto_optimal_selection(candidate_skills, learner, top_k)
ParetoOptimalSelectionResult(candidate_skills, learner, top_k, noise) ==
    LET sorted == SortByReward(
                     ParetoFront(SkillObjectives(candidate_skills, learner, noise), 1))
    IN SubSeq(sorted, 1, Min(top_k, Len(sorted)))

\* ------------------------------------------------------------------------
\* Cold-start solver (src/bandit/cold_start.py)
\* ------------------------------------------------------------------------
n_clusters == 2

Clusters == 0..(n_clusters - 1)

\* self.kmeans = None
NoKMeans == [assigned |-> FALSE, fitted |-> FALSE, predict |-> <<>>]

\* find_similar_cluster without the test of self.kmeans
FindSimilarClusterResultUnchecked(new_learner) ==
    IF "target_role" \notin DOMAIN new_learner
    THEN [err |-> "KeyError", cluster_id |-> -1]
    ELSE [err |-> "none",
          cluster_id |-> IF kmeans.fitted THEN kmeans.predict[new_learner.id] ELSE 0]

\* find_similar_cluster(new_learner); kmeans.predict is a function of the
\* learner's features, held per learner id.  self.kmeans is None: ValueError;
\* new_learner['target_role'] of a learner without one: KeyError; predict on
\* a KMeans that was assigned and never fitted: sklearn's NotFittedError, a
\* ValueError
FindSimilarClusterResult(new_learner) ==
    IF ~kmeans.assigned THEN [err |-> "ValueError", cluster_id |-> -1]
    ELSE IF "target_role" \notin DOMAIN new_learner
         THEN [err |-> "KeyError", cluster_id |-> -1]
         ELSE IF ~kmeans.fitted THEN [err |-> "ValueError", cluster_id |-> -1]
         ELSE [err |-> "none", cluster_id |-> kmeans.predict[new_learner.id]]

\* transfer_bandit_parameters(cluster_id, bandit_type): None, or the stored
\* parameters themselves
TransferBanditParameters(cluster_id, bandit_type) ==
    IF cluster_id \notin DOMAIN cluster_bandit_params
    THEN [none |-> TRUE, val |-> <<>>]
    ELSE IF bandit_type \notin DOMAIN cluster_bandit_params[cluster_id]
         THEN [none |-> TRUE, val |-> <<>>]
         ELSE [none |-> FALSE, val |-> cluster_bandit_params[cluster_id][bandit_type]]

\* an array the call has created: no other object holds it
NewArray(val) == [alias |-> FALSE, of |-> <<>>, val |-> val]

\* the stored array of a skill, handed out as it is
AliasedA(cluster_id, transferred, skill) ==
    [alias |-> TRUE, of |-> <<cluster_id, skill>>,
     val |-> [i \in 1..n_features |->
                [j \in 1..n_features |-> 10 * transferred.A[skill][i][j]]]]

\* the arrays a new learner receives hold A in units of 1/10 and b in units
\* of 1/(10 * RS)
\* np.identity(n_features)
FreshA == NewArray([i \in 1..n_features |->
                      [j \in 1..n_features |-> 10 * Identity(n_features)[i][j]]])

\* np.zeros((n_features, 1))
FreshB == NewArray(Zeros(n_features))

\* 0.7 * transferred['A'][skill] + 0.3 * np.identity(n_features)
BlendedA(cluster_id, transferred, skill) ==
    NewArray([i \in 1..n_features |->
                [j \in 1..n_features |->
                    7 * transferred.A[skill][i][j] + 3 * Identity(n_features)[i][j]]])

\* 0.7 * transferred['b'][skill]
BlendedB(transferred, skill) ==
    NewArray([i \in 1..n_features |-> 7 * transferred.b[skill][i]])

SeqRange(s) == {s[i] : i \in 1..Len(s)}

\* initialize_new_user_bandit(new_learner, all_skills, n_features)
InitializeNewUserBanditResult(new_learner, all_skills) ==
    LET found == FindSimilarClusterResult(new_learner)
        transferred == TransferBanditParameters(found.cluster_id, "linucb")
        failed(e) == [err |-> e, A |-> <<>>, b |-> <<>>, cluster_id |-> -1,
                      confidence |-> 0, transfer_success |-> FALSE]
    IN IF found.err # "none" THEN failed(found.err)
       ELSE IF transferred.none
       THEN [err |-> "none",
             A |-> [skill \in SeqRange(all_skills) |-> FreshA],
             b |-> [skill \in SeqRange(all_skills) |-> FreshB],
             cluster_id |-> found.cluster_id,
             confidence |-> 0, transfer_success |-> FALSE]
       ELSE IF \E skill \in SeqRange(all_skills) :
                  skill \in DOMAIN transferred.val.A /\ skill \notin DOMAIN transferred.val.b
       THEN failed("KeyError")
       ELSE [err |-> "none",
             A |-> [skill \in SeqRange(all_skills) |->
                      IF skill \in DOMAIN transferred.val.A
                      THEN BlendedA(found.cluster_id, transferred.val, skill)
                      ELSE FreshA],
             b |-> [skill \in SeqRange(all_skills) |->
                      IF skill \in DOMAIN transferred.val.A
                      THEN BlendedB(transferred.val, skill)
                      ELSE FreshB],
             cluster_id |-> found.cluster_id,
             confidence |-> (7 * ONE) \div 10, transfer_success |-> TRUE]

\* statistics that count every logged event as a successful transfer
ColdStartStatisticsAllSuccessful ==
    IF Len(cold_start_history) = 0 THEN <<>>
    ELSE [total_cold_starts |-> Len(cold_start_history),
          successful_transfers |-> Len(cold_start_history),
          transfer_rate |-> ONE,
          avg_confidence |-> (7 * ONE) \div 10,
          cluster_distribution |-> <<>>]

\* get_cold_start_statistics(): {} for an empty log
ColdStartStatistics ==
    IF Len(cold_start_history) = 0 THEN <<>>
    ELSE LET total == Len(cold_start_history)
             successful_transfers ==
                 Cardinality({i \in 1..total : cold_start_history[i].transfer_success})
         IN [total_cold_starts |-> total,
             successful_transfers |-> successful_transfers,
             transfer_rate |-> (successful_transfers * ONE) \div total,
             avg_confidence |->
                 SumSeq([i \in 1..total |-> cold_start_history[i].confidence]) \div total,
             cluster_distribution |->
                 [c \in {cold_start_history[i].cluster_id : i \in 1..total} |->
                     Cardinality({i \in 1..total : cold_start_history[i].cluster_id = c})]]

\* foundational_skills of warm_start_recommendation
FoundationalSkills ==
    [r \in {"Data Scientist", "ML Engineer", "Backend Engineer", "Frontend Developer"} |->
        CASE r = "Data Scientist" -> <<"Python", "SQL", "Statistics">>
          [] r = "ML Engineer" -> <<"Python", "Machine Learning", "Mathematics">>
          [] r = "Backend Engineer" -> <<"Python", "REST API", "SQL">>
          [] r = "Frontend Developer" -> <<"JavaScript", "HTML", "CSS", "React">>]

\* warm_start_recommendation(new_learner, candidate_skills); choice is the
\* index np.random.choice draws
WarmStartRecommendationResult(new_learner, candidate_skills, choice) ==
    LET found == FindSimilarClusterResult(new_learner)
        role == new_learner.target_role
        foundation == IF role \in DOMAIN FoundationalSkills
                      THEN FoundationalSkills[role] ELSE <<>>
        hits == {i \in 1..Len(foundation) : foundation[i] \in SeqRange(candidate_skills)}
    IN IF found.err # "none" THEN [err |-> found.err, skill |-> "none"]
       ELSE IF found.cluster_id \notin DOMAIN cluster_profiles
       THEN [err |-> "KeyError", skill |-> "none"]
       ELSE IF hits # {}
       THEN [err |-> "none", skill |-> foundation[CHOOSE i \in hits : \A k \in hits : i <= k]]
       ELSE IF Len(candidate_skills) = 0 THEN [err |-> "ValueError", skill |-> "none"]
       ELSE [err |-> "none", skill |-> candidate_skills[choice]]

\* ------------------------------------------------------------------------
\* Explainable recommender (src/bandit/explainable_ai.py)
\* ------------------------------------------------------------------------
\* values a caller may put into a dict of scores, or pass as confidence: a
\* number, None, a text that is no number
Num(x) == [kind |-> "float", v |-> x]
NoneValue == [kind |-> "None", v |-> 0]
TextValue == [kind |-> "str", v |-> 0]

\* float(v): TypeError for None, ValueError for a text that is no number
ToFloat(value) ==
    CASE value.kind = "float" -> [err |-> "none", v |-> value.v]
      [] value.kind = "None" -> [err |-> "TypeError", v |-> 0]
      [] OTHER -> [err |-> "ValueError", v |-> 0]

\* a dict of scores is the sequence of its items in insertion order
\* _safe_scores(scores)
SafeScores(scores) ==
    [i \in 1..Len(scores) |->
        [skill |-> scores[i].skill,
         score |-> IF ToFloat(scores[i].score).err = "none"
                   THEN ToFloat(scores[i].score).v ELSE 0]]

\* scores.get(skill, default)
ScoreGet(scores, skill, default) ==
    IF \E i \in 1..Len(scores) : scores[i].skill = skill
    THEN scores[CHOOSE i \in 1..Len(scores) : scores[i].skill = skill].score
    ELSE default

\* sorted(scores.items(), key=lambda x: x[1], reverse=True): descending and
\* stable, items of equal score keep their order
SortedByScore(scores) ==
    LET place(i) == 1 + Cardinality({j \in 1..Len(scores) :
                           \/ scores[j].score > scores[i].score
                           \/ scores[j].score = scores[i].score /\ j < i})
    IN [k \in 1..Len(scores) |-> scores[CHOOSE i \in 1..Len(scores) : place(i) = k]]

\* self.skill_metadata.get(skill, {}).get(field, default)
MetadataGet(skill, field, default) ==
    IF skill \in KnownSkills THEN SkillMetadata[skill][field] ELSE default

\* objectives.get(key, 0); objectives of None is the empty function
ObjectiveGet(objectives, key) ==
    IF key \in DOMAIN objectives THEN objectives[key] ELSE 0

\* _difficulty_label(difficulty)
DifficultyLabel(difficulty) ==
    IF difficulty < (3 * ONE) \div 10 THEN "Beginner"
    ELSE IF difficulty < (6 * ONE) \div 10 THEN "Intermediate" ELSE "Advanced"

\* _impact_description(score)
ImpactDescription(score) ==
    IF score > (8 * ONE) \div 10 THEN "Critical for career advancement"
    ELSE IF score > (6 * ONE) \div 10 THEN "High impact" ELSE "Moderate impact"

\* _learning_curve_description(difficulty, speed)
LearningCurveDescription(difficulty, speed) ==
    IF Abs(difficulty - speed) < ONE \div 5 THEN "Well matched to your level"
    ELSE IF difficulty > speed THEN "Challenging" ELSE "Comfortable"

\* _job_opportunities_description(demand)
JobOpportunitiesDescription(demand) ==
    IF demand > (8 * ONE) \div 10 THEN "Very high demand"
    ELSE IF demand > (6 * ONE) \div 10 THEN "High demand" ELSE "Moderate demand"

\* _get_prerequisites(skill) of the explainer
ExplainerPrerequisites(skill) ==
    CASE skill = "Machine Learning" -> {"Python", "Statistics"}
      [] skill = "Deep Learning" -> {"Machine Learning"}
      [] skill = "React" -> {"JavaScript"}
      [] OTHER -> {}

\* _simple_explanation(skill, learner, objectives)
SimpleExplanation(skill, learner, objectives) ==
    LET learning_speed == LearningSpeed(learner)
        difficulty == MetadataGet(skill, "difficulty", ONE \div 2)
        learning_time == MetadataGet(skill, "learning_time", 100)
        reasons ==
            (IF ObjectiveGet(objectives, "career_readiness") > (7 * ONE) \div 10
             THEN <<"Essential for role">> ELSE <<>>)
            \o (IF Abs(difficulty - learning_speed) < ONE \div 5
                THEN <<"Perfectly matches your skill level">>
                ELSE IF difficulty < learning_speed
                     THEN <<"Easy to learn given your background">> ELSE <<>>)
            \o (IF learning_time < 120 THEN <<"Can be learned in hours">> ELSE <<>>)
            \o (IF ObjectiveGet(objectives, "market_demand") > (8 * ONE) \div 10
                THEN <<"High demand in job market">> ELSE <<>>)
    IN [summary |-> [skill |-> skill, reasons |-> reasons],
        reasons |-> reasons,
        estimated_time |-> learning_time,
        difficulty_rating |-> DifficultyLabel(difficulty)]

\* _compare_skills(a, b, learner)
CompareSkills(skill_a, skill_b) ==
    [faster |-> IF MetadataGet(skill_a, "learning_time", 0)
                     < MetadataGet(skill_b, "learning_time", 0)
                THEN skill_a ELSE skill_b,
     easier |-> IF MetadataGet(skill_a, "difficulty", ONE \div 2)
                     < MetadataGet(skill_b, "difficulty", ONE \div 2)
                THEN skill_a ELSE skill_b]

\* runner_up = alternatives[1][0]: the second item of all scores sorted
\* descending, the recommended skill's own item included
RunnerUp(all_scores) == SortedByScore(all_scores)[2].skill

\* _detailed_explanation(skill, learner, all_scores, objectives)
DetailedExplanation(skill, learner, all_scores, objectives) ==
    LET given == DOMAIN objectives # {}
        breakdown ==
            [career_impact |->
                 ImpactDescription(IF given THEN ObjectiveGet(objectives, "career_readiness")
                                   ELSE ONE \div 2),
             learning_curve |->
                 LearningCurveDescription(MetadataGet(skill, "difficulty", ONE \div 2),
                                          LearningSpeed(learner)),
             time_commitment |-> MetadataGet(skill, "learning_time", 100),
             job_opportunities |->
                 JobOpportunitiesDescription(IF given
                                             THEN ObjectiveGet(objectives, "market_demand")
                                             ELSE ONE \div 2),
             prerequisites |-> ExplainerPrerequisites(skill)]
        alternatives == SortedByScore(all_scores)
    IN SimpleExplanation(skill, learner, objectives)
       @@ [detailed_breakdown |->
             IF Len(alternatives) > 1
             THEN breakdown @@ [vs_alternative |-> CompareSkills(skill, RunnerUp(all_scores))]
             ELSE breakdown]

\* _get_rank(skill, scores)
GetRank(skill, scores) ==
    LET sorted_skills == SortedByScore(scores)
    IN IF \E i \in 1..Len(scores) : sorted_skills[i].skill = skill
       THEN CHOOSE i \in 1..Len(scores) : sorted_skills[i].skill = skill
       ELSE Len(scores)

\* _get_percentile(skill, scores): 1 - better / len(scores)
GetPercentile(skill, scores) ==
    LET skill_score == ScoreGet(scores, skill, 0)
        better == Cardinality({i \in 1..Len(scores) : scores[i].score > skill_score})
    IN IF Len(scores) = 0 THEN [err |-> "ZeroDivisionError", v |-> 0]
       ELSE [err |-> "none", v |-> ONE - (better * ONE) \div Len(scores)]

\* _technical_explanation(skill, learner, all_scores, objectives)
TechnicalExplanation(skill, learner, all_scores, objectives) ==
    LET percentile == GetPercentile(skill, all_scores)
    IN IF percentile.err # "none" THEN [err |-> percentile.err, val |-> <<>>]
       ELSE [err |-> "none",
             val |-> DetailedExplanation(skill, learner, all_scores, objectives)
                     @@ [technical_details |->
                           [ucb_score |-> ScoreGet(all_scores, skill, 0),
                            expected_reward |-> ScoreGet(all_scores, skill, 0),
                            exploration_bonus |-> (15 * ONE) \div 100,
                            objective_scores |-> objectives,
                            rank |-> GetRank(skill, all_scores),
                            score_percentile |-> percentile.v]]]

\* one entry of the alternatives list
Alternative(item) ==
    [skill |-> item.skill, score |-> item.score,
     difficulty |-> MetadataGet(item.skill, "difficulty", ONE \div 2),
     learning_time |-> MetadataGet(item.skill, "learning_time", 100),
     reason |-> "Alternative learning path"]

\* the top_k best-scored items, the recommended skill among them
GetAlternativesAmongAll(recommended, all_scores) ==
    LET sorted_skills == SortedByScore(all_scores)
    IN [k \in 1..Min(AlternativesTopK, Len(sorted_skills)) |-> Alternative(sorted_skills[k])]

\* _get_alternatives(recommended, all_scores, top_k=3)
GetAlternatives(recommended, all_scores) ==
    LET others == SelectSeq(SortedByScore(all_scores),
                            LAMBDA item : item.skill # recommended)
    IN [k \in 1..Min(AlternativesTopK, Len(others)) |-> Alternative(others[k])]

\* _counterfactual_explanation(recommended, all_scores); an entry holds the
\* skill and the reasons its sentence names
CounterfactualExplanation(recommended, all_scores) ==
    LET rec_score == ScoreGet(all_scores, recommended, 0)
        lower_scored ==
            SortedByScore(SelectSeq(all_scores,
                LAMBDA item : item.skill # recommended /\ item.score < rec_score))
        reasons(item) ==
            (IF item.score < rec_score - ONE \div 5
             THEN <<"lower relevance to your goals">> ELSE <<>>)
            \o (IF MetadataGet(item.skill, "learning_time", 0) > 200
                THEN <<"requires more time investment">> ELSE <<>>)
        first == [k \in 1..Min(2, Len(lower_scored)) |->
                    [skill |-> lower_scored[k].skill,
                     reasons |-> reasons(lower_scored[k])]]
    IN SelectSeq(first, LAMBDA entry : Len(entry.reasons) > 0)

\* explain_recommendation(recommended_skill, learner, all_candidate_scores,
\* objectives, confidence, level)
ExplainRecommendationResult(recommended_skill, learner, all_candidate_scores, objectives, confidence, level) ==
    LET safe == SafeScores(all_candidate_scores)
        explanation ==
            [recommended_skill |-> recommended_skill,
             confidence |-> IF confidence.kind = "float" /\ confidence.v # 0
                            THEN confidence.v ELSE (8 * ONE) \div 10,
             level |-> level]
        body ==
            CASE level = "simple" ->
                   [err |-> "none",
                    val |-> SimpleExplanation(recommended_skill, learner, objectives)]
              [] level = "detailed" ->
                   [err |-> "none",
                    val |-> DetailedExplanation(recommended_skill, learner, safe, objectives)]
              [] level = "technical" ->
                   TechnicalExplanation(recommended_skill, learner, safe, objectives)
              [] OTHER -> [err |-> "none", val |-> <<>>]
    IN IF body.err # "none" THEN body
       ELSE [err |-> "none",
             val |-> [alternatives |-> GetAlternatives(recommended_skill, safe),
                      why_not |-> CounterfactualExplanation(recommended_skill, safe)]
                     @@ body.val @@ explanation]

\* ------------------------------------------------------------------------
\* An engine that several callers share
\* ------------------------------------------------------------------------
\* the callers: the program creates no thread of its own and holds no lock
Threads == {1, 2}

\* a caller that has no call in progress
Idle == [pc |-> "idle", arm |-> "none", reward |-> 0, context |-> <<>>]

\* ------------------------------------------------------------------------
\* State after construction
\* ------------------------------------------------------------------------
\* np.random.randn(...) * 0.01: the initial parameters one arm's network may draw
InitNetworks ==
    { [W1 |-> [i \in 1..n_features |-> [j \in Hidden |-> ONE \div 100]],
       b1 |-> [j \in Hidden |-> 0],
       W2 |-> [j \in Hidden |-> ONE \div 100],
       b2 |-> 0],
      [W1 |-> [i \in 1..n_features |->
                  [j \in Hidden |-> IF i = j THEN ONE \div 50 ELSE -(ONE \div 100)]],
       b1 |-> [j \in Hidden |-> 0],
       W2 |-> [j \in Hidden |-> IF j = 1 THEN -(ONE \div 100) ELSE ONE \div 50],
       b2 |-> 0] }

DefaultWeights ==
    [k \in AlgoSet |-> IF k = "linucb" THEN (4 * ONE) \div 10 ELSE (3 * ONE) \div 10]

\* initial_weights a caller may pass: non-negative, positive sum
InitialWeights ==
    { DefaultWeights,
      [k \in AlgoSet |-> IF k = "neural" THEN ONE ELSE ONE \div 2],
      [k \in AlgoSet |-> IF k = "thompson" THEN ONE \div 5 ELSE 0] }

\* LinUCB.__init__, ThompsonSamplingBandit.__init__, NeuralUCB.__init__ and
\* HybridMultiArmedBandit.__init__ with the given random draw and weights
Construct(nets, w) ==
    /\ A = [a \in ArmSet |-> Identity(n_features)]
    /\ b = [a \in ArmSet |-> Zeros(n_features)]
    /\ alpha = [a \in ArmSet |-> RS]
    /\ beta = [a \in ArmSet |-> RS]
    /\ pulls = [a \in ArmSet |-> 0]
    /\ rewards_history = [a \in ArmSet |-> <<>>]
    /\ networks = nets
    /\ updates = [a \in ArmSet |-> 0]
    /\ history = [a \in ArmSet |-> <<>>]
    /\ weights = w
    /\ performance = [k \in AlgoSet |-> <<>>]
    /\ weight_history = <<>>
    /\ expl = NoExpl
    /\ file = NoFile
    /\ loaded = NoLoaded
    /\ kmeans = NoKMeans
    /\ cluster_profiles = <<>>
    /\ cluster_bandit_params = <<>>
    /\ cold_start_history = <<>>
    /\ inflight = [t \in Threads |-> Idle]
    /\ completed = [a \in ArmSet |-> <<>>]
    /\ ret = NoRet

FirstNetwork == CHOOSE net \in InitNetworks : net.W2[1] > 0

Init ==
    /\ Construct([a \in ArmSet |-> FirstNetwork], DefaultWeights)
    /\ ConstructCalculator(FirstDemand)

\* ------------------------------------------------------------------------
\* Operations of the base bandits
\* ------------------------------------------------------------------------
Outcome(op, r, contexts, algo) ==
    [op |-> op, arm |-> r.arm, err |-> r.err, contexts |-> contexts,
     scores |-> r.scores, algo |-> algo]

\* LinUCB.recommend(contexts)
LinRecommend(contexts) ==
    /\ ret' = Outcome("linucb.recommend", LinRecommendResult(contexts),
                      contexts, "linucb")
    /\ UNCHANGED <<linVars, tsVars, nnVars, hybVars, sideVars>>

\* LinUCB.update(arm, reward, context)
LinUpdate(arm, reward, context) ==
    LET r == LinUpdateResult(A[arm], b[arm], reward, context)
    IN /\ A' = [A EXCEPT ![arm] = r.A]
       /\ b' = [b EXCEPT ![arm] = r.b]
       /\ ret' = [NoRet EXCEPT !.op = "linucb.update", !.err = r.err]
       /\ UNCHANGED <<tsVars, nnVars, hybVars, sideVars>>

\* recommend that counts no pull
TSRecommendNoPull(candidates, samples) ==
    /\ ret' = [op |-> "thompson.recommend",
               arm |-> TSRecommendResult(candidates, samples).arm,
               err |-> TSRecommendResult(candidates, samples).err,
               contexts |-> candidates, scores |-> <<>>, algo |-> "thompson"]
    /\ UNCHANGED <<tsVars, linVars, nnVars, hybVars, sideVars>>

\* ThompsonSamplingBandit.recommend(candidate_skills)
TSRecommend(candidates, samples) ==
    LET r == TSRecommendResult(candidates, samples)
    IN /\ pulls' = IF r.err = "none" THEN [pulls EXCEPT ![r.arm] = @ + 1]
                   ELSE pulls
       /\ ret' = [op |-> "thompson.recommend", arm |-> r.arm, err |-> r.err,
                  contexts |-> candidates, scores |-> <<>>,
                  algo |-> "thompson"]
       /\ UNCHANGED <<alpha, beta, rewards_history, linVars, nnVars, hybVars, sideVars>>

\* update with beta += reward
TSUpdateBetaPlus(skill, reward) ==
    /\ alpha' = [alpha EXCEPT ![skill] = @ + reward]
    /\ beta' = [beta EXCEPT ![skill] = @ + reward]
    /\ rewards_history' = [rewards_history EXCEPT ![skill] = Append(@, reward)]
    /\ ret' = [NoRet EXCEPT !.op = "thompson.update"]
    /\ UNCHANGED <<pulls, linVars, nnVars, hybVars, sideVars>>

\* update with beta += reward - 1
TSUpdateBetaMinus(skill, reward) ==
    /\ alpha' = [alpha EXCEPT ![skill] = @ + reward]
    /\ beta' = [beta EXCEPT ![skill] = @ + (reward - RS)]
    /\ rewards_history' = [rewards_history EXCEPT ![skill] = Append(@, reward)]
    /\ ret' = [NoRet EXCEPT !.op = "thompson.update"]
    /\ UNCHANGED <<pulls, linVars, nnVars, hybVars, sideVars>>

\* ThompsonSamplingBandit.update(skill, reward)
TSUpdate(skill, reward) ==
    /\ alpha' = [alpha EXCEPT ![skill] = @ + reward]
    /\ beta' = [beta EXCEPT ![skill] = @ + (RS - reward)]
    /\ rewards_history' = [rewards_history EXCEPT ![skill] = Append(@, reward)]
    /\ ret' = [NoRet EXCEPT !.op = "thompson.update"]
    /\ UNCHANGED <<pulls, linVars, nnVars, hybVars, sideVars>>

\* the mean alpha / (alpha + beta) and the variance
\* alpha * beta / ((alpha + beta)^2 * (alpha + beta + 1)) of Beta(alpha, beta),
\* alpha and beta in units of 1/RS
BetaMean(a, bb) == (a * ONE) \div (a + bb)

BetaVariance(a, bb) == (a * bb * RS * ONE) \div ((a + bb) * (a + bb) * (a + bb + RS))

\* get_statistics(skill): the fixed answer for an arm with no pulls, else the
\* statistics of the arm's parameters
ThompsonStatistics(skill) ==
    IF pulls[skill] = 0
    THEN [mean |-> ONE \div 2, variance |-> (83 * ONE) \div 1000, pulls |-> 0]
    ELSE [mean |-> BetaMean(alpha[skill], beta[skill]),
          variance |-> BetaVariance(alpha[skill], beta[skill]),
          pulls |-> pulls[skill], alpha |-> alpha[skill], beta |-> beta[skill]]

\* ThompsonSamplingBandit.get_statistics(skill)
GetStatistics(skill) ==
    /\ args' = [skill |-> skill]
    /\ out' = ThompsonStatistics(skill)
    /\ ret' = [NoRet EXCEPT !.op = "thompson.get_statistics"]
    /\ UNCHANGED <<engineVars, coldVars>>

\* NeuralUCB.recommend(contexts)
NeuralRecommend(contexts) ==
    /\ ret' = Outcome("neural.recommend", NeuralRecommendResult(contexts),
                      contexts, "neural")
    /\ UNCHANGED <<linVars, tsVars, nnVars, hybVars, sideVars>>

\* NeuralUCB.update(arm, reward, context, n_epochs)
NeuralUpdate(arm, reward, context, n_epochs) ==
    IF Len(context.v) # n_features
    THEN /\ ret' = [NoRet EXCEPT !.op = "neural.update", !.err = "ValueError"]
         /\ UNCHANGED <<linVars, tsVars, nnVars, hybVars, sideVars>>
    ELSE /\ networks' = [networks EXCEPT
                            ![arm] = Train(@, context.v, Real(reward), n_epochs)]
         /\ history' = [history EXCEPT ![arm] = Append(@, reward)]
         /\ updates' = [updates EXCEPT ![arm] = @ + 1]
         /\ ret' = [NoRet EXCEPT !.op = "neural.update"]
         /\ UNCHANGED <<linVars, tsVars, hybVars, sideVars>>

\* NeuralUCB.save_model(filepath)
SaveModel ==
    /\ file' = [saved |-> TRUE, data |-> ModelData(networks)]
    /\ ret' = [NoRet EXCEPT !.op = "neural.save_model"]
    /\ UNCHANGED <<linVars, tsVars, nnVars, hybVars, loaded, moVars, coldVars, sharedVars, args, out>>

\* load_model(filepath) on a NeuralUCB constructed for it with the same arms,
\* n_features and hidden_size; fresh is its random initialisation.  open()
\* raises FileNotFoundError when no file was saved.
LoadModel(fresh) ==
    /\ IF file.saved
       THEN /\ loaded' = LoadedInstance(fresh, file.data)
            /\ ret' = [NoRet EXCEPT !.op = "neural.load_model"]
       ELSE /\ loaded' = [NoLoaded EXCEPT !.made = TRUE, !.networks = fresh,
                                          !.updates = [a \in ArmSet |-> 0],
                                          !.history = [a \in ArmSet |-> <<>>]]
            /\ ret' = [NoRet EXCEPT !.op = "neural.load_model",
                                    !.err = "FileNotFoundError"]
    /\ UNCHANGED <<linVars, tsVars, nnVars, hybVars, file, moVars, coldVars, sharedVars, args, out>>

\* ------------------------------------------------------------------------
\* Operations of the multi-objective reward calculator
\* ------------------------------------------------------------------------
\* calculate_multi_objective_reward(skill, learner, target_role_skills = ...)
CalculateReward(skill, learner, target_role_skills, noise) ==
    /\ args' = [skill |-> skill, learner |-> learner,
                target_role_skills |-> target_role_skills, noise |-> noise]
    /\ out' = CalculateMultiObjectiveReward(skill, learner, target_role_skills, noise)
    /\ ret' = [NoRet EXCEPT !.op = "calculate_multi_objective_reward"]
    /\ UNCHANGED <<linVars, tsVars, nnVars, hybVars, file, loaded, moVars, coldVars,
                   sharedVars>>

\* update_objective_weights(new_weights): the weights normalised by their sum
UpdateObjectiveWeights(new_weights) ==
    /\ objective_weights' =
          [o \in DOMAIN new_weights |->
              (new_weights[o] * 100)
                 \div SumSeq([i \in 1..Len(Objectives) |-> new_weights[Objectives[i]]])]
    /\ args' = [new_weights |-> new_weights]
    /\ out' = <<>>
    /\ ret' = [NoRet EXCEPT !.op = "update_objective_weights"]
    /\ UNCHANGED <<linVars, tsVars, nnVars, hybVars, file, loaded,
                   market_demand_scores, coldVars, sharedVars>>

\* pareto_optimal_selection(candidate_skills, learner, top_k); noise holds the
\* draws of np.random.normal, one per candidate
ParetoOptimalSelection(candidate_skills, learner, top_k, noise) ==
    /\ args' = [candidate_skills |-> candidate_skills, learner |-> learner,
                top_k |-> top_k, noise |-> noise]
    /\ out' = ParetoOptimalSelectionResult(candidate_skills, learner, top_k, noise)
    /\ ret' = [NoRet EXCEPT !.op = "pareto_optimal_selection"]
    /\ UNCHANGED <<linVars, tsVars, nnVars, hybVars, file, loaded, moVars, coldVars,
                   sharedVars>>

\* ------------------------------------------------------------------------
\* Operations of the cold-start solver
\* ------------------------------------------------------------------------
\* fit_user_clusters(learners): fit holds what KMeans yields on the batch, the
\* label of each existing learner and the cluster predicted for a new one
FitUserClusters(fit) ==
    /\ kmeans' = [assigned |-> TRUE, fitted |-> TRUE, predict |-> fit.predict]
    /\ cluster_profiles' =
          [c \in Clusters |->
              [size |-> Cardinality({i \in DOMAIN fit.labels : fit.labels[i] = c}),
               member_ids |-> {i \in DOMAIN fit.labels : fit.labels[i] = c}]]
    /\ args' = [learners |-> DOMAIN fit.labels]
    /\ out' = fit.labels
    /\ ret' = [NoRet EXCEPT !.op = "fit_user_clusters"]
    /\ UNCHANGED <<engineVars, cluster_bandit_params, cold_start_history>>

\* fit_user_clusters(learners) on fewer learners than n_clusters: self.kmeans
\* is assigned, then KMeans.fit_predict raises ValueError before any profile
\* is stored
FitUserClustersFails(learners) ==
    /\ Cardinality(learners) \in 1..(n_clusters - 1)
    /\ kmeans' = [assigned |-> TRUE, fitted |-> FALSE, predict |-> <<>>]
    /\ args' = [learners |-> learners]
    /\ out' = <<>>
    /\ ret' = [NoRet EXCEPT !.op = "fit_user_clusters", !.err = "ValueError"]
    /\ UNCHANGED <<engineVars, cluster_profiles, cluster_bandit_params, cold_start_history>>

\* find_similar_cluster(new_learner)
FindSimilarCluster(new_learner) ==
    \E r \in {FindSimilarClusterResult(new_learner)} :
        /\ args' = [new_learner |-> new_learner]
        /\ out' = r.cluster_id
        /\ ret' = [NoRet EXCEPT !.op = "find_similar_cluster", !.err = r.err]
        /\ UNCHANGED <<engineVars, coldVars>>

\* transfer_bandit_parameters(cluster_id, bandit_type)
TransferParameters(cluster_id, bandit_type) ==
    /\ args' = [cluster_id |-> cluster_id, bandit_type |-> bandit_type]
    /\ out' = TransferBanditParameters(cluster_id, bandit_type)
    /\ ret' = [NoRet EXCEPT !.op = "transfer_bandit_parameters"]
    /\ UNCHANGED <<engineVars, coldVars>>

\* store_cluster_parameters(cluster_id, bandit_type, parameters)
StoreClusterParameters(cluster_id, bandit_type, parameters) ==
    /\ cluster_bandit_params' =
          [c \in DOMAIN cluster_bandit_params \cup {cluster_id} |->
              IF c # cluster_id THEN cluster_bandit_params[c]
              ELSE LET old == IF c \in DOMAIN cluster_bandit_params
                              THEN cluster_bandit_params[c] ELSE <<>>
                   IN [t \in DOMAIN old \cup {bandit_type} |->
                          IF t = bandit_type THEN parameters ELSE old[t]]]
    /\ args' = [cluster_id |-> cluster_id, bandit_type |-> bandit_type]
    /\ out' = <<>>
    /\ ret' = [NoRet EXCEPT !.op = "store_cluster_parameters"]
    /\ UNCHANGED <<engineVars, kmeans, cluster_profiles, cold_start_history>>

\* initialize_new_user_bandit(new_learner, all_skills, n_features)
InitializeNewUserBandit(new_learner, all_skills) ==
    \E r \in {InitializeNewUserBanditResult(new_learner, all_skills)} :
        /\ args' = [new_learner |-> new_learner, all_skills |-> all_skills]
        /\ IF r.err # "none"
           THEN /\ out' = <<>>
                /\ UNCHANGED cold_start_history
           ELSE /\ out' = [A |-> r.A, b |-> r.b, cluster_id |-> r.cluster_id,
                           confidence |-> r.confidence]
                /\ cold_start_history' =
                      Append(cold_start_history,
                             [learner_id |-> new_learner.id,
                              cluster_id |-> r.cluster_id,
                              transfer_success |-> r.transfer_success,
                              confidence |-> r.confidence])
        /\ ret' = [NoRet EXCEPT !.op = "initialize_new_user_bandit", !.err = r.err]
        /\ UNCHANGED <<engineVars, kmeans, cluster_profiles, cluster_bandit_params>>

\* get_cold_start_statistics()
GetColdStartStatistics ==
    /\ args' = <<>>
    /\ out' = ColdStartStatistics
    /\ ret' = [NoRet EXCEPT !.op = "get_cold_start_statistics"]
    /\ UNCHANGED <<engineVars, coldVars>>

\* warm_start_recommendation(new_learner, candidate_skills)
WarmStartRecommendation(new_learner, candidate_skills, choice) ==
    \E r \in {WarmStartRecommendationResult(new_learner, candidate_skills, choice)} :
        /\ args' = [new_learner |-> new_learner, candidate_skills |-> candidate_skills]
        /\ out' = r.skill
        /\ ret' = [NoRet EXCEPT !.op = "warm_start_recommendation", !.err = r.err]
        /\ UNCHANGED <<engineVars, coldVars>>

\* LinUCB's in-place update, self.A[arm] += x @ x.T, on the A a new learner
\* received: an array that some snapshot also holds changes there as well
UpdateReturnedA(skill, x) ==
    LET entry == out.A[skill]
        added(M, unit) == [i \in 1..n_features |->
                             [j \in 1..n_features |-> M[i][j] + unit * x[i] * x[j]]]
    IN /\ ret.op = "initialize_new_user_bandit"
       /\ ret.err = "none"
       /\ skill \in DOMAIN out.A
       /\ out' = [out EXCEPT !.A[skill].val = added(entry.val, 10)]
       /\ cluster_bandit_params' =
             IF entry.alias
             THEN [cluster_bandit_params EXCEPT
                      ![entry.of[1]]["linucb"].A[entry.of[2]] = added(@, 1)]
             ELSE cluster_bandit_params
       /\ ret' = [NoRet EXCEPT !.op = "update_returned"]
       /\ UNCHANGED <<engineVars, kmeans, cluster_profiles, cold_start_history, args>>

\* ------------------------------------------------------------------------
\* Operations of the explainable recommender
\* ------------------------------------------------------------------------
\* explain_recommendation(...): the explainer holds the skill table and
\* assigns no attribute after construction
ExplainRecommendation(recommended_skill, learner, all_candidate_scores, objectives, confidence, level) ==
    \E r \in {ExplainRecommendationResult(recommended_skill, learner,
                  all_candidate_scores, objectives, confidence, level)} :
        /\ args' = [recommended_skill |-> recommended_skill, learner |-> learner,
                    all_candidate_scores |-> all_candidate_scores,
                    objectives |-> objectives, confidence |-> confidence,
                    level |-> level]
        /\ out' = r.val
        /\ ret' = [NoRet EXCEPT !.op = "explain_recommendation", !.err = r.err]
        /\ UNCHANGED <<engineVars, coldVars>>

\* ------------------------------------------------------------------------
\* LinUCB.update as the two statements it is made of, for callers that share
\* one bandit
\* ------------------------------------------------------------------------
\* self.A[arm] += context @ context.T; the call has not returned
LinUpdateA(t, arm, reward, context) ==
    /\ inflight[t].pc = "idle"
    /\ A' = [A EXCEPT ![arm] = LinUpdateResult(A[arm], b[arm], reward, context).A]
    /\ inflight' = [inflight EXCEPT ![t] = [pc |-> "b", arm |-> arm,
                                            reward |-> reward, context |-> context]]
    /\ UNCHANGED <<b, tsVars, nnVars, hybVars, file, loaded, moVars, coldVars,
                   completed, args, out, ret>>

\* self.b[arm] += reward * context; the call returns
LinUpdateB(t) ==
    LET call == inflight[t]
    IN /\ call.pc = "b"
       /\ b' = [b EXCEPT ![call.arm] =
                   LinUpdateResult(A[call.arm], b[call.arm], call.reward, call.context).b]
       /\ completed' = [completed EXCEPT ![call.arm] =
                           Append(@, [reward |-> call.reward, context |-> call.context])]
       /\ inflight' = [inflight EXCEPT ![t] = Idle]
       /\ ret' = [NoRet EXCEPT !.op = "linucb.update"]
       /\ UNCHANGED <<A, tsVars, nnVars, hybVars, file, loaded, moVars, coldVars,
                      args, out>>

\* ------------------------------------------------------------------------
\* Operations of the hybrid ensemble
\* ------------------------------------------------------------------------
\* HybridMultiArmedBandit.recommend(contexts, method)
HybridRecommend(contexts, method, samples) ==
    \E r \in {HybridRecommendResult(contexts, method, samples)} :
       IF r.err # "none"
       THEN /\ ret' = [op |-> method, arm |-> "none", err |-> r.err,
                       contexts |-> contexts, scores |-> <<>>, algo |-> "none"]
            /\ UNCHANGED <<linVars, tsVars, nnVars, hybVars, sideVars>>
       ELSE /\ pulls' = IF r.pulled THEN [pulls EXCEPT ![r.arm] = @ + 1] ELSE pulls
            /\ expl' = r.expl
            /\ ret' = [op |-> method, arm |-> r.arm, err |-> "none",
                       contexts |-> contexts, scores |-> r.scores, algo |-> r.algo]
            /\ UNCHANGED <<alpha, beta, rewards_history, linVars, nnVars,
                           weights, performance, weight_history, sideVars>>

\* HybridMultiArmedBandit.update(skill, reward, context): the fan-out to the
\* three bandits, the three appends and, on every MetaPeriod-th observation,
\* _meta_learn().  An exception leaves what ran before it.
\* completed logs the observation of a call that has returned.
HybridUpdate(skill, reward, context) ==
    \E c \in {EnsureColumnVector(context)} :
    \E lin \in {LinUpdateResult(A[skill], b[skill], reward, c)} :
    \E perf \in {[k \in AlgoSet |-> Append(performance[k], reward)]} :
    \E meta \in {Len(perf["linucb"]) % MetaPeriod = 0} :
       /\ A' = [A EXCEPT ![skill] = lin.A]
       /\ b' = [b EXCEPT ![skill] = lin.b]
       /\ IF lin.err # "none"
          THEN /\ ret' = [NoRet EXCEPT !.op = "update", !.err = lin.err,
                                       !.contexts = << <<skill, context>> >>]
               /\ UNCHANGED <<tsVars, nnVars, hybVars, sideVars>>
          ELSE /\ alpha' = [alpha EXCEPT ![skill] = @ + reward]
               /\ beta' = [beta EXCEPT ![skill] = @ + (RS - reward)]
               /\ rewards_history' =
                      [rewards_history EXCEPT ![skill] = Append(@, reward)]
               /\ UNCHANGED pulls
               /\ IF Len(c.v) # n_features
                  THEN /\ ret' = [NoRet EXCEPT !.op = "update",
                                               !.err = "ValueError",
                                               !.contexts = << <<skill, context>> >>]
                       /\ UNCHANGED <<nnVars, hybVars, sideVars>>
                  ELSE /\ networks' = [networks EXCEPT ![skill] =
                                 Train(@, c.v, Real(reward), NeuralEpochs)]
                       /\ history' = [history EXCEPT ![skill] = Append(@, reward)]
                       /\ updates' = [updates EXCEPT ![skill] = @ + 1]
                       /\ performance' = perf
                       /\ weights' = IF meta THEN MetaLearn(weights, perf)
                                     ELSE weights
                       /\ weight_history' = IF meta
                                            THEN Append(weight_history, weights')
                                            ELSE weight_history
                       /\ completed' = [completed EXCEPT ![skill] =
                                 Append(@, [reward |-> reward, context |-> c])]
                       /\ ret' = [NoRet EXCEPT !.op = "update",
                                               !.contexts = << <<skill, context>> >>]
                       /\ UNCHANGED <<expl, file, loaded, moVars, coldVars,
                                      inflight, args, out>>

\* update(skill, reward, context) of caller t up to the third append: the
\* fan-out to the three bandits and the appends to the performance
\* histories.  A call that raises ends here, as in HybridUpdate.
HybridUpdateAppend(t, skill, reward, context) ==
    \E c \in {EnsureColumnVector(context)} :
    \E lin \in {LinUpdateResult(A[skill], b[skill], reward, c)} :
       /\ inflight[t].pc = "idle"
       /\ IF lin.err # "none" \/ Len(c.v) # n_features
          THEN HybridUpdate(skill, reward, context)
          ELSE /\ A' = [A EXCEPT ![skill] = lin.A]
               /\ b' = [b EXCEPT ![skill] = lin.b]
               /\ alpha' = [alpha EXCEPT ![skill] = @ + reward]
               /\ beta' = [beta EXCEPT ![skill] = @ + (RS - reward)]
               /\ rewards_history' =
                      [rewards_history EXCEPT ![skill] = Append(@, reward)]
               /\ networks' = [networks EXCEPT ![skill] =
                                  Train(@, c.v, Real(reward), NeuralEpochs)]
               /\ history' = [history EXCEPT ![skill] = Append(@, reward)]
               /\ updates' = [updates EXCEPT ![skill] = @ + 1]
               /\ performance' = [k \in AlgoSet |-> Append(performance[k], reward)]
               /\ inflight' = [inflight EXCEPT ![t] =
                                  [pc |-> "test", arm |-> skill, reward |-> reward,
                                   context |-> c]]
               /\ UNCHANGED <<pulls, weights, weight_history, expl, file, loaded,
                              moVars, coldVars, completed, args, out, ret>>

\* the rest of the call of caller t: the test of the history length and, on
\* a multiple of MetaPeriod, _meta_learn(); then the call returns
HybridUpdateTest(t) ==
    \E call \in {inflight[t]} :
    \E meta \in {Len(performance["linucb"]) % MetaPeriod = 0} :
       /\ call.pc = "test"
       /\ weights' = IF meta THEN MetaLearn(weights, performance) ELSE weights
       /\ weight_history' = IF meta THEN Append(weight_history, weights')
                            ELSE weight_history
       /\ completed' = [completed EXCEPT ![call.arm] =
                           Append(@, [reward |-> call.reward, context |-> call.context])]
       /\ inflight' = [inflight EXCEPT ![t] = Idle]
       /\ ret' = [NoRet EXCEPT !.op = "update",
                               !.contexts = << <<call.arm, call.context>> >>]
       /\ UNCHANGED <<linVars, tsVars, nnVars, performance, expl, file, loaded,
                      moVars, coldVars, args, out>>

\* the standard deviation np.std of a list of rewards, in units of 1/ONE
Std(s) ==
    LET n == Len(s)
        sq == SumSeq([i \in 1..n |-> s[i] * s[i]])
    IN Sqrt(((((n * sq - SumSeq(s) * SumSeq(s)) * 100) \div (n * n))
             * (ONE \div 100)) \div (RS * RS))

\* get_performance_summary()
GetPerformanceSummary ==
    /\ ret' = [NoRet EXCEPT
                 !.op = "get_performance_summary",
                 !.scores = [i \in 1..Len(Algos) |->
                    LET h == performance[Algos[i]]
                    IN [mean_reward |-> IF Len(h) = 0 THEN 0 ELSE Mean(h),
                        std_reward |-> IF Len(h) = 0 THEN 0 ELSE Std(h),
                        total_updates |-> Len(h),
                        current_weight |-> weights[Algos[i]]]]]
    /\ UNCHANGED <<linVars, tsVars, nnVars, hybVars, sideVars>>

\* ------------------------------------------------------------------------
\* Inputs
\* ------------------------------------------------------------------------
\* rewards in [0, 1], and rewards a caller may pass that are not
RewardsInRange == {0, 1, RS \div 2, RS}

RewardsAny == RewardsInRange \cup {-(RS \div 2), RS + RS \div 2}

UpdateContexts == {Col(<<1, 0>>), Col(<<0, 1>>), Col(<<1, -1>>), Flat(<<1, 0>>)}

CandidateContexts == {Col(<<1, 0>>), Col(<<0, 1>>), Flat(<<2, 0>>)}

LinRewards == {-(RS \div 2), 0, RS}

TSRewards == {0, 1, RS, RS + RS \div 2}

\* the contexts dicts of a recommend call: every order of every subset of the arms
ContextMaps ==
    {<<>>}
    \cup {<< <<a, c>> >> : a \in ArmSet, c \in CandidateContexts}
    \cup {m \in {<< <<a1, c1>>, <<a2, c2>> >> :
                     a1 \in ArmSet, a2 \in ArmSet, c1 \in CandidateContexts,
                     c2 \in CandidateContexts} : m[1][1] # m[2][1]}

CandidateLists ==
    {<<>>} \cup {<<a>> : a \in ArmSet}
    \cup {l \in {<<a1, a2>> : a1 \in ArmSet, a2 \in ArmSet} : l[1] # l[2]}

\* values np.random.beta may return
BetaSamples == {ONE \div 4, (3 * ONE) \div 4}

SamplesFor(n) == [1..n -> BetaSamples]

\* two draws for n candidates: low, high, low, ... and high, low, high, ...
SampleDraws(n) ==
    { [i \in 1..n |-> IF i % 2 = k THEN ONE \div 4 ELSE (3 * ONE) \div 4] :
        k \in {0, 1} }

Methods == {"weighted_voting", "best_performer", "context_dependent"}

\* ------------------------------------------------------------------------
\* LinUCB used alone
\* ------------------------------------------------------------------------
DoLinRecommend == \E contexts \in ContextMaps : LinRecommend(contexts)

DoLinUpdate ==
    \E arm \in ArmSet, reward \in LinRewards, context \in UpdateContexts :
        /\ SumSeq([i \in 1..Len(Arms) |-> Trace(A[Arms[i]])])
             + Trace(LinUpdateResult(A[arm], b[arm], reward, context).A)
             - Trace(A[arm]) <= MaxTrace
        /\ LinUpdate(arm, reward, context)

NextLinUCB == DoLinRecommend \/ DoLinUpdate

SpecLinUCB == Init /\ [][NextLinUCB]_vars

\* ------------------------------------------------------------------------
\* Thompson sampling used alone
\* ------------------------------------------------------------------------
DoTSRecommend ==
    \E candidates \in CandidateLists :
        \E samples \in SamplesFor(Len(candidates)) :
            /\ SumSeq([i \in 1..Len(Arms) |-> pulls[Arms[i]]]) < MaxPulls
            /\ TSRecommend(candidates, samples)

DoTSUpdate ==
    \E skill \in ArmSet, reward \in TSRewards :
        /\ SumSeq([i \in 1..Len(Arms) |-> Len(rewards_history[Arms[i]])])
             < MaxTSUpdates
        /\ TSUpdate(skill, reward)

\* the statistics do not depend on the get_statistics calls made before
DoGetStatistics ==
    /\ ret.op # "thompson.get_statistics"
    /\ \E skill \in ArmSet : GetStatistics(skill)

NextThompson == DoTSRecommend \/ DoTSUpdate \/ DoGetStatistics

SpecThompson == Init /\ [][NextThompson]_vars

\* ------------------------------------------------------------------------
\* The engine: the hybrid ensemble and the recommend calls on its bandits
\* ------------------------------------------------------------------------
EngineMaps ==
    { <<>>,
      << <<"Python", Col(<<1, 0>>)>>, <<"SQL", Col(<<0, 1>>)>> >>,
      << <<"SQL", Flat(<<2, 0>>)>>, <<"Python", Col(<<1, 0>>)>> >> }

\* the observations fed back: the recommended skill with its context
EngineObservations ==
    { <<"Python", Col(<<1, 0>>)>>, <<"SQL", Flat(<<0, 1>>)>>,
      <<"Python", Row(<<1, 0>>)>>, <<"SQL", Col(<<1>>)>> }

EngineRewards == {0, RS}

TotalPulls == SumSeq([i \in 1..Len(Arms) |-> pulls[Arms[i]]])

TotalTrace == SumSeq([i \in 1..Len(Arms) |-> Trace(A[Arms[i]])])

DoRecommend ==
    \E contexts \in EngineMaps, method \in Methods :
        \E samples \in SampleDraws(Len(contexts)) :
            /\ HybridRecommend(contexts, method, samples)
            /\ TotalPulls < MaxPulls \/ pulls' = pulls

DoUpdate ==
    \E obs \in EngineObservations, reward \in EngineRewards :
        /\ Len(performance["linucb"]) < MaxUpdates
        /\ HybridUpdate(obs[1], reward, obs[2])
        /\ TotalTrace' <= n_features * Len(Arms) + MaxUpdates

DoSummary == GetPerformanceSummary

DoBanditRecommend ==
    \E contexts \in EngineMaps :
        \/ LinRecommend(contexts)
        \/ NeuralRecommend(contexts)
        \/ \E samples \in SampleDraws(Len(contexts)) :
              /\ TotalPulls < MaxPulls
              /\ TSRecommend(Keys(contexts), samples)

Next == DoRecommend \/ DoUpdate \/ DoSummary \/ DoBanditRecommend

Spec == Init /\ [][Next]_vars

\* ------------------------------------------------------------------------
\* The neural bandit used alone, with save_model and load_model
\* ------------------------------------------------------------------------
NeuralRewards == {1, RS}

NeuralMaps ==
    { << <<"Python", Col(<<1, 0>>)>>, <<"SQL", Col(<<0, 1>>)>> >>,
      << <<"SQL", Col(<<0, 1>>)>>, <<"Python", Col(<<1, 0>>)>> >>,
      << <<"Python", Col(<<0, 1>>)>> >> }

\* the random initialisations of an instance the model draws from
NeuralDraws == {[a \in ArmSet |-> net] : net \in InitNetworks}

InitNeural ==
    /\ \E nets \in NeuralDraws : Construct(nets, DefaultWeights)
    /\ ConstructCalculator(FirstDemand)

DoNeuralUpdate ==
    \E m \in NeuralMaps, reward \in NeuralRewards :
        /\ SumSeq([i \in 1..Len(Arms) |-> updates[Arms[i]]]) < MaxNeuralUpdates
        /\ NeuralUpdate(m[1][1], reward, m[1][2], NeuralDefaultEpochs)

DoNeuralRecommend == \E contexts \in NeuralMaps : NeuralRecommend(contexts)

DoSaveModel == SaveModel

DoLoadModel == \E fresh \in NeuralDraws : LoadModel(fresh)

NextNeural == DoNeuralUpdate \/ DoNeuralRecommend \/ DoSaveModel \/ DoLoadModel

SpecNeural == InitNeural /\ [][NextNeural]_vars

\* ------------------------------------------------------------------------
\* The multi-objective reward calculator
\* ------------------------------------------------------------------------
Learners ==
    { [id |-> 1, learning_speed |-> (8 * ONE) \div 10,
       known_skills |-> {"Python", "SQL"}],
      [id |-> 2, learning_speed |-> ONE \div 5, known_skills |-> {""}],
      [id |-> 3] }

\* new_weights a caller may pass to update_objective_weights
NewObjectiveWeights ==
    { [career_readiness |-> 2, time_efficiency |-> 5, difficulty_match |-> 1,
       market_demand |-> 1, prerequisite_fit |-> 1] }

TargetRoleSkills == { <<>>, <<"Python", "SQL", "Django">> }

ParetoSkills == {"Python", "Django", "Kubernetes", "Rust", "Go"}

\* the candidate lists: up to MaxCandidates skills, repetitions allowed
CandidateSkillLists ==
    UNION {[1..n -> ParetoSkills] : n \in 0..MaxCandidates}

\* two sequences of draws for n candidates
NoiseDraws(n) ==
    { [i \in 1..n |-> IF i % 2 = k THEN -(ONE \div 20) ELSE ONE \div 20] :
        k \in {0, 1} }

InitCalculator ==
    /\ Construct([a \in ArmSet |-> FirstNetwork], DefaultWeights)
    /\ \E demand \in DemandDraws : ConstructCalculator(demand)

\* the calls that read the calculator and leave it as it is: what one of them
\* returns does not depend on the calls of this kind made before it, so the
\* model takes each from a state no such call has led to
NoQueryYet ==
    ret.op \notin {"calculate_multi_objective_reward", "pareto_optimal_selection"}

DoCalculateReward ==
    \E skill \in Skills, learner \in Learners, target \in TargetRoleSkills,
       noise \in NormalDraws :
        /\ NoQueryYet
        /\ CalculateReward(skill, learner, target, noise)

DoUpdateObjectiveWeights ==
    \E new_weights \in NewObjectiveWeights : UpdateObjectiveWeights(new_weights)

DoParetoOptimalSelection ==
    \E candidate_skills \in CandidateSkillLists, learner \in Learners,
       top_k \in 0..MaxCandidates :
        \E noise \in NoiseDraws(Len(candidate_skills)) :
            /\ NoQueryYet
            /\ ParetoOptimalSelection(candidate_skills, learner, top_k, noise)

NextCalculator ==
    DoCalculateReward \/ DoUpdateObjectiveWeights \/ DoParetoOptimalSelection

SpecCalculator == InitCalculator /\ [][NextCalculator]_vars

\* ------------------------------------------------------------------------
\* The cold-start solver
\* ------------------------------------------------------------------------
\* new learners: the third has no target_role
NewLearners ==
    { [id |-> 1, target_role |-> "Data Scientist"],
      [id |-> 2, target_role |-> "DevOps Engineer"],
      [id |-> 3] }

ExistingIds == {11, 12}

\* outcomes of KMeans on the batch of existing learners
Fits ==
    { [labels |-> [i \in ExistingIds |-> IF i = 11 THEN 0 ELSE 1], predict |-> p] :
        p \in [{1, 2} -> Clusters] }

BanditTypes == {"linucb", "thompson"}

\* parameters a caller stores: LinUCB snapshots that cover Python only, and a
\* Thompson snapshot
LinSnapshots ==
    { [A |-> [Python |-> << <<2, 0>>, <<0, 1>> >>], b |-> [Python |-> <<RS, 0>>]],
      [A |-> [Python |-> << <<3, 1>>, <<1, 2>> >>], b |-> [Python |-> <<RS, 2 * RS>>]] }

ThompsonSnapshots == { [alpha |-> [Python |-> 2 * RS], beta |-> [Python |-> RS]] }

SnapshotsOf(bandit_type) ==
    IF bandit_type = "linucb" THEN LinSnapshots ELSE ThompsonSnapshots

AllSkillLists == { <<"Python">>, <<"SQL">>, <<"Python", "SQL">> }

WarmCandidates == { <<>>, <<"SQL", "Statistics">>, <<"Pandas", "Go">> }

InitColdStart ==
    /\ Construct([a \in ArmSet |-> FirstNetwork], DefaultWeights)
    /\ ConstructCalculator(FirstDemand)

\* the calls that only read the solver: what one returns does not depend on
\* the reading calls made before it, so each is taken from a state no such
\* call has led to
ColdQueries ==
    {"find_similar_cluster", "transfer_bandit_parameters",
     "get_cold_start_statistics", "warm_start_recommendation", "update_returned"}

NoColdQueryYet == ret.op \notin ColdQueries

DoFitUserClusters == \E fit \in Fits : ~kmeans.fitted /\ FitUserClusters(fit)

\* a first fit on a batch of one learner
DoFitUserClustersFails ==
    \E i \in ExistingIds : kmeans = NoKMeans /\ FitUserClustersFails({i})

DoFindSimilarCluster ==
    \E new_learner \in NewLearners : NoColdQueryYet /\ FindSimilarCluster(new_learner)

DoTransferParameters ==
    \E cluster_id \in Clusters, bandit_type \in BanditTypes :
        NoColdQueryYet /\ TransferParameters(cluster_id, bandit_type)

DoStoreClusterParameters ==
    \E cluster_id \in Clusters, bandit_type \in BanditTypes :
        \E parameters \in SnapshotsOf(bandit_type) :
            /\ NoColdQueryYet
            /\ StoreClusterParameters(cluster_id, bandit_type, parameters)

DoInitializeNewUserBandit ==
    \E new_learner \in NewLearners, all_skills \in AllSkillLists :
        /\ NoColdQueryYet
        /\ Len(cold_start_history) < MaxColdStarts
        /\ InitializeNewUserBandit(new_learner, all_skills)

DoGetColdStartStatistics == NoColdQueryYet /\ GetColdStartStatistics

DoWarmStartRecommendation ==
    \E new_learner \in NewLearners, candidate_skills \in WarmCandidates :
        \E choice \in 1..Max(1, Len(candidate_skills)) :
            /\ NoColdQueryYet
            /\ WarmStartRecommendation(new_learner, candidate_skills, choice)

DoUpdateReturnedA ==
    \E skill \in {"Python", "SQL"}, x \in {<<1, 0>>, <<1, 1>>} : UpdateReturnedA(skill, x)

NextColdStart ==
    \/ DoFitUserClusters
    \/ DoFitUserClustersFails
    \/ DoFindSimilarCluster
    \/ DoTransferParameters
    \/ DoStoreClusterParameters
    \/ DoInitializeNewUserBandit
    \/ DoGetColdStartStatistics
    \/ DoWarmStartRecommendation
    \/ DoUpdateReturnedA

SpecColdStart == InitColdStart /\ [][NextColdStart]_vars

\* ------------------------------------------------------------------------
\* The explainable recommender
\* ------------------------------------------------------------------------
\* the skills a dict of scores may name, in the order they are inserted
ScoredSkills == <<"Python", "Django", "Kubernetes", "Rust", "Go">>

ScoreValues == {Num((9 * ONE) \div 10), Num((8 * ONE) \div 10), NoneValue, TextValue}

Absent == [kind |-> "absent", v |-> 0]

\* the dicts of scores: each skill is absent or has one of the values
ScoreDicts ==
    { SelectSeq([i \in 1..Len(ScoredSkills) |-> [skill |-> ScoredSkills[i], score |-> f[i]]],
                LAMBDA item : item.score # Absent) :
        f \in [1..Len(ScoredSkills) -> ScoreValues \cup {Absent}] }

RecommendedSkills == {"Python", "Rust"}

ExplainLearners ==
    { [id |-> 1, target_role |-> "Data Scientist", learning_speed |-> (8 * ONE) \div 10] }

\* objectives: None, or the calculator's objectives of a skill
ExplainObjectives ==
    { <<>>, [career_readiness |-> (8 * ONE) \div 10, market_demand |-> (9 * ONE) \div 10] }

\* confidence: None, 0.0 as a cold start without transfer reports it, 0.9
Confidences == {NoneValue, Num(0), Num((9 * ONE) \div 10)}

Levels == {"simple", "detailed", "technical", "expert"}

InitExplainer ==
    /\ Construct([a \in ArmSet |-> FirstNetwork], DefaultWeights)
    /\ ConstructCalculator(FirstDemand)

\* an explanation does not depend on the explanations given before it
DoExplainRecommendation ==
    /\ ret.op # "explain_recommendation"
    /\ \E recommended_skill \in RecommendedSkills, learner \in ExplainLearners,
          all_candidate_scores \in ScoreDicts, objectives \in ExplainObjectives,
          confidence \in Confidences, level \in Levels :
           ExplainRecommendation(recommended_skill, learner, all_candidate_scores,
                                 objectives, confidence, level)

NextExplainer == DoExplainRecommendation

SpecExplainer == InitExplainer /\ [][NextExplainer]_vars

\* ------------------------------------------------------------------------
\* LinUCB shared by callers that take no lock: a recommend call may run
\* between the two statements of an update call
\* ------------------------------------------------------------------------
SharedContexts == {Col(<<1, 0>>), Col(<<1, 1>>)}

SharedRewards == {RS \div 2, RS}

\* updates begun so far
Begun ==
    SumSeq([i \in 1..Len(Arms) |-> Len(completed[Arms[i]])])
      + Cardinality({t \in Threads : inflight[t].pc # "idle"})

DoLinUpdateA ==
    /\ Begun < MaxSharedUpdates
    /\ \E t \in Threads, arm \in ArmSet, reward \in SharedRewards,
          context \in SharedContexts : LinUpdateA(t, arm, reward, context)

DoLinUpdateB == \E t \in Threads : LinUpdateB(t)

DoSharedLinRecommend ==
    \E arm \in ArmSet, context \in SharedContexts :
        LinRecommend(<< <<arm, context>> >>)

NextLinShared == DoLinUpdateA \/ DoLinUpdateB \/ DoSharedLinRecommend

SpecLinShared == Init /\ [][NextLinShared]_vars

\* ------------------------------------------------------------------------
\* The engine fed with observations that every bandit accepts: contexts of
\* n_features components as a column or a flat array, rewards in [0, 1]
\* ------------------------------------------------------------------------
FanOutContexts == {Col(<<1, 1>>), Flat(<<0, 1>>)}

FanOutRewards == {0, RS \div 2, RS}

FanOutMap == << <<"Python", Col(<<1, 0>>)>>, <<"SQL", Col(<<0, 1>>)>> >>

DoFanOutUpdate ==
    \E skill \in ArmSet, reward \in FanOutRewards, context \in FanOutContexts :
        /\ Len(performance["linucb"]) < MaxFanOut
        /\ HybridUpdate(skill, reward, context)

DoFanOutRecommend ==
    \E method \in Methods :
        /\ ret.op = "update"
        /\ TotalPulls < MaxPulls
        /\ HybridRecommend(FanOutMap, method, [i \in 1..Len(FanOutMap) |-> ONE \div 2])

NextFanOut == DoFanOutUpdate \/ DoFanOutRecommend

SpecFanOut == Init /\ [][NextFanOut]_vars

\* ------------------------------------------------------------------------
\* The engine over many observations: one arm and one context, rewards that
\* change every RunLen observations, a recommend call before the first
\* observation and before each meta-learning step
\* ------------------------------------------------------------------------
MetaArm == "Python"

MetaContext == Col(<<1, 0>>)

MetaMap == << <<"Python", Col(<<1, 0>>)>>, <<"SQL", Col(<<0, 1>>)>> >>

MetaRewards == {-(RS \div 2), 0, RS, RS + RS \div 2}

InitMeta ==
    /\ \E w \in InitialWeights : Construct([a \in ArmSet |-> FirstNetwork], w)
    /\ ConstructCalculator(FirstDemand)

MetaUpdate ==
    \E reward \in MetaRewards :
        /\ Len(performance["linucb"]) < MaxMetaUpdates
        /\ IF Len(performance["linucb"]) % RunLen = 0 THEN TRUE
           ELSE reward = performance["linucb"][Len(performance["linucb"])]
        /\ HybridUpdate(MetaArm, reward, MetaContext)

MetaRecommend ==
    \E method \in Methods :
        /\ \/ (Len(performance["linucb"]) + 1) % MetaPeriod = 0
           \/ Len(performance["linucb"]) = 0 /\ ret.op = "init"
        /\ HybridRecommend(MetaMap, method, [i \in 1..Len(MetaMap) |-> ONE \div 2])

MetaSummary ==
    /\ Len(performance["linucb"]) % MetaPeriod = 0
    /\ GetPerformanceSummary

\* context_dependent calls around the history length at which the neural
\* bandit takes over: two candidates, the first with a context of variance 0,
\* 0.25 or 1
RouteMaps ==
    { << <<a1, c1>>, <<a2, c2>> >> :
        a1 \in {"Python", "SQL"}, a2 \in {"Python", "SQL"},
        c1 \in {Col(<<1, 1>>), Col(<<1, 0>>), Col(<<2, 0>>)},
        c2 \in {Col(<<1, 0>>), Col(<<2, 0>>)} } \ 
    { << <<a, c1>>, <<a, c2>> >> :
        a \in {"Python", "SQL"},
        c1 \in {Col(<<1, 1>>), Col(<<1, 0>>), Col(<<2, 0>>)},
        c2 \in {Col(<<1, 0>>), Col(<<2, 0>>)} }

MetaRouteRecommend ==
    /\ Len(performance["linucb"]) \in {HistoryThreshold, HistoryThreshold + 1}
    /\ TotalPulls < MaxPulls
    /\ \E contexts \in RouteMaps :
          HybridRecommend(contexts, "context_dependent",
                          [i \in 1..Len(contexts) |-> ONE \div 2])

NextMeta == MetaUpdate \/ MetaRecommend \/ MetaSummary \/ MetaRouteRecommend

SpecMeta == InitMeta /\ [][NextMeta]_vars

\* ------------------------------------------------------------------------
\* The engine with two callers of update: one arm and one context, the
\* reward drawn once
\* ------------------------------------------------------------------------
DoHybridUpdateAppend ==
    /\ Begun < MaxSharedMeta
    /\ \E t \in Threads, reward \in {0, RS} :
          /\ IF Len(performance["linucb"]) = 0 THEN TRUE
             ELSE reward = performance["linucb"][1]
          /\ HybridUpdateAppend(t, MetaArm, reward, MetaContext)

DoHybridUpdateTest == \E t \in Threads : HybridUpdateTest(t)

NextMetaShared == DoHybridUpdateAppend \/ DoHybridUpdateTest

SpecMetaShared == Init /\ [][NextMetaShared]_vars

\* ------------------------------------------------------------------------
\* Properties of the hybrid ensemble
\* ------------------------------------------------------------------------
Observations == Len(performance["linucb"])

MetaStep == Len(weight_history') = Len(weight_history) + 1

C2_MetaEvery20th ==
    LET n == SumSeq([i \in 1..Len(Arms) |-> updates[Arms[i]]])
    IN /\ Len(weight_history) = n \div 20
       /\ n = SumSeq([i \in 1..Len(Arms) |-> Len(rewards_history[Arms[i]])])
       /\ \A k \in AlgoSet : Len(performance[k]) = n

\* the 120th update has run, and with it the sixth meta-learning step
C2_Witness == Observations = 120 /\ Len(weight_history) = 6

\* the target of a meta-learning step when every algorithm's performance is
\* its mean reward over the last 100 observations (all of them when fewer)
TargetOfMeans(perf) ==
    LET m == [k \in AlgoSet |->
                 (SumSeq(LastK(perf[k], 100)) * ONE) \div (Len(LastK(perf[k], 100)) * RS)]
        e == [k \in AlgoSet |-> Exp(5 * m[k])]
    IN [k \in AlgoSet |-> (e[k] * ONE) \div (e["linucb"] + e["thompson"] + e["neural"])]

\* the target of a step taken on fewer than 100 observations: the softmax of
\* the current weights
TargetOfWeights(w) ==
    LET e == [k \in AlgoSet |-> Exp(5 * w[k])]
    IN [k \in AlgoSet |-> (e[k] * ONE) \div (e["linucb"] + e["thompson"] + e["neural"])]

\* 0.9 * old + 0.1 * target, renormalised
Blended(w, t) ==
    LET s == [k \in AlgoSet |-> (9 * w[k] + t[k]) \div 10]
    IN [k \in AlgoSet |-> (s[k] * ONE) \div (s["linucb"] + s["thompson"] + s["neural"])]

\* C3 as stated: at every meta-learning step, also before 100 observations,
\* the target is the softmax (factor 5) of the mean rewards of the window, and
\* the new weights are 0.9 * old + 0.1 * target, renormalised.
C3_TargetIsMeanReward ==
    [][MetaStep => weights' = Blended(weights, TargetOfMeans(performance'))]_vars

\* C3 amended: from 100 observations on the target is the softmax of the mean
\* rewards of the last 100 observations; on fewer than 100 observations it is
\* the softmax (factor 5) of the current weights themselves; in both cases the
\* new weights are 0.9 * old + 0.1 * target, renormalised.
C3_TargetByHistoryLength ==
    [][MetaStep =>
         weights' = Blended(weights,
                            IF Len(performance'["linucb"]) >= 100
                            THEN TargetOfMeans(performance')
                            ELSE TargetOfWeights(weights))]_vars

\* steps of both kinds have run: four before and two from 100 observations on
C3_Witness ==
    /\ Len(weight_history) = 6
    /\ weight_history[6] # weight_history[4]
    /\ \E i \in 1..Observations : performance["linucb"][i] # performance["linucb"][1]

\* C4: the weights change only in an update call whose observation count
\* becomes a multiple of 20 (recommend calls, get_performance_summary and the
\* other update calls leave them), and the weights of a returned explanation
\* stay as they were when it was returned.
C4_WeightsOnlyByMetaLearning ==
    [][/\ weights' # weights =>
            /\ ret'.op = "update"
            /\ Len(performance'["linucb"]) = Observations + 1
            /\ Len(performance'["linucb"]) % 20 = 0
            /\ MetaStep
       /\ ret'.op # "update" => weights' = weights /\ UNCHANGED weight_history
       /\ (expl' = expl /\ expl.weights.ref # "none") => ExplWeights' = ExplWeights
      ]_vars

\* an explanation returned by weighted voting shows weights that
\* meta-learning has since replaced
C4_Witness ==
    /\ expl.method = "weighted_voting"
    /\ Len(weight_history) > 0
    /\ ExplWeights # weights
    /\ ret.op = "get_performance_summary"

\* ------------------------------------------------------------------------
\* Properties of LinUCB
\* ------------------------------------------------------------------------
IsSymmetric(M) == \A i, j \in 1..Len(M) : M[i][j] = M[j][i]

\* for a symmetric 2 x 2 matrix M: M - I is positive semi-definite, that is,
\* the smallest eigenvalue of M is at least 1
MinEigAtLeastOne(M) ==
    /\ M[1][1] >= 1
    /\ M[2][2] >= 1
    /\ (M[1][1] - 1) * (M[2][2] - 1) - M[1][2] * M[2][1] >= 0

\* tr^2 - 4 det of a 2 x 2 matrix; its eigenvalues are (tr +- sqrt(Disc)) / 2
Disc(M) == Trace(M) * Trace(M) - 4 * Det(M)

\* d + sqrt(p) >= sqrt(q), decided exactly, for integers d and p, q >= 0
PlusRootAtLeastRoot(d, p, q) ==
    IF d >= 0
    THEN \/ q - p - d * d <= 0
         \/ 4 * d * d * p >= (q - p - d * d) * (q - p - d * d)
    ELSE /\ p - q - d * d >= 0
         /\ (p - q - d * d) * (p - q - d * d) >= 4 * d * d * q

\* the smallest eigenvalue of N is not below the smallest eigenvalue of M
MinEigNotBelow(N, M) == PlusRootAtLeastRoot(Trace(N) - Trace(M), Disc(M), Disc(N))

\* C5: for every arm and every sequence of updates A stays symmetric and
\* positive-definite: its smallest eigenvalue starts at 1 and never decreases,
\* so A is invertible and recommend never fails on the inversion.
C5_PositiveDefinite ==
    [][\A a \in ArmSet :
          /\ IsSymmetric(A'[a])
          /\ MinEigAtLeastOne(A'[a])
          /\ MinEigNotBelow(A'[a], A[a])
          /\ Det(A'[a]) > 0
          /\ ret'.err \notin {"LinAlgError", "nan"}]_vars

\* recommend has returned an arm after updates made A non-diagonal
C5_Witness ==
    /\ ret.op = "linucb.recommend"
    /\ ret.err = "none"
    /\ \E a \in ArmSet : A[a][1][2] # 0 /\ Trace(A[a]) >= 5

\* the place of an arm among the keys of a contexts dict
IndexOf(arm, contexts) == CHOOSE i \in 1..Len(contexts) : contexts[i][1] = arm

\* C9: LinUCB.recommend returns an arm whose score, computed from the state
\* and the contexts, no candidate exceeds, and the first such arm in the order
\* of the contexts map; so equal state and contexts give the same arm.
C9_FirstMaximalArm ==
    (ret.op = "linucb.recommend" /\ ret.err = "none") =>
        LET score(i) == LinScore(A[ret.contexts[i][1]], b[ret.contexts[i][1]],
                                 ret.contexts[i][2]).p
            k == IndexOf(ret.arm, ret.contexts)
        IN /\ \E i \in 1..Len(ret.contexts) : ret.contexts[i][1] = ret.arm
           /\ \A i \in 1..Len(ret.contexts) : score(i) <= score(k)
           /\ \A i \in 1..(k - 1) : score(i) < score(k)

\* two candidates tie after an update and the first of the map is returned
C9_Witness ==
    /\ ret.op = "linucb.recommend"
    /\ ret.err = "none"
    /\ Len(ret.contexts) = 2
    /\ ret.scores[1] = ret.scores[2]
    /\ ret.arm = ret.contexts[1][1]
    /\ \E a \in ArmSet : A[a] # Identity(n_features)

ScenarioMaps ==
    { << <<"Python", Col(<<1, 0>>)>>, <<"SQL", Col(<<0, 1>>)>> >>,
      << <<"SQL", Col(<<0, 1>>)>>, <<"Python", Col(<<1, 0>>)>> >> }

Fresh(a) == A[a] = Identity(n_features) /\ b[a] = Zeros(n_features)

\* the state of arm Python after update("Python", 1.0, [1, 0]) alone
PythonRewardedOnce ==
    A["Python"] = << <<2, 0>>, <<0, 1>> >> /\ b["Python"] = <<RS, 0>>

\* C10: with contexts Python = [1, 0] and SQL = [0, 1], on the fresh bandit
\* both arms score exactly 1 and the first arm of the map is returned; after
\* update("Python", 1.0, [1, 0]) Python scores more than 1, SQL exactly 1, and
\* Python is returned in either order of the map.
C10_Scenario ==
    (ret.op = "linucb.recommend" /\ ret.contexts \in ScenarioMaps) =>
        LET py == IndexOf("Python", ret.contexts)
            sql == IndexOf("SQL", ret.contexts)
        IN /\ (Fresh("Python") /\ Fresh("SQL")) =>
                 /\ ret.err = "none"
                 /\ ret.scores[py] = ONE
                 /\ ret.scores[sql] = ONE
                 /\ ret.arm = ret.contexts[1][1]
           /\ (PythonRewardedOnce /\ Fresh("SQL")) =>
                 /\ ret.err = "none"
                 /\ ret.scores[py] > ONE
                 /\ ret.scores[sql] = ONE
                 /\ ret.arm = "Python"

\* after the update, recommend on the map that lists SQL first returns Python
C10_Witness ==
    /\ ret.op = "linucb.recommend"
    /\ ret.contexts \in ScenarioMaps
    /\ ret.contexts[1][1] = "SQL"
    /\ PythonRewardedOnce
    /\ Fresh("SQL")
    /\ ret.arm = "Python"

\* ------------------------------------------------------------------------
\* Properties of Thompson sampling
\* ------------------------------------------------------------------------
InUnitInterval(r) == 0 <= r /\ r <= RS

\* the arm a step has appended a reward to
Updated(a) == Len(rewards_history'[a]) = Len(rewards_history[a]) + 1

\* C6: an update(arm, r) with r in [0, 1] increases alpha[arm] + beta[arm] by
\* exactly 1, leaves the other arms' alpha and beta unchanged, and the new
\* posterior mean alpha / (alpha + beta) lies between the old mean and r.
C6_UpdateMovesMeanTowardReward ==
    [][\A a \in ArmSet :
          (Updated(a) /\ InUnitInterval(rewards_history'[a][Len(rewards_history'[a])])) =>
             LET r == rewards_history'[a][Len(rewards_history'[a])]
                 s == alpha[a] + beta[a]
                 t == alpha'[a] + beta'[a]
             IN /\ t = s + RS
                /\ \A o \in ArmSet \ {a} : alpha'[o] = alpha[o] /\ beta'[o] = beta[o]
                /\ s > 0
                \* old mean <= r: old mean <= new mean <= r
                /\ alpha[a] * RS <= r * s =>
                      alpha[a] * t <= alpha'[a] * s /\ alpha'[a] * RS <= r * t
                \* old mean >= r: old mean >= new mean >= r
                /\ alpha[a] * RS >= r * s =>
                      alpha[a] * t >= alpha'[a] * s /\ alpha'[a] * RS >= r * t
      ]_vars

\* an arm has taken a second update, with reward 0.25
C6_Witness ==
    /\ ret.op = "thompson.update"
    /\ \E a \in ArmSet :
          /\ Len(rewards_history[a]) = 2
          /\ rewards_history[a][2] = 1
          /\ rewards_history[a][1] = RS

AllRewardsInRange ==
    \A a \in ArmSet : \A i \in 1..Len(rewards_history[a]) :
        InUnitInterval(rewards_history[a][i])

\* C7: while every reward passed to update lies in [0, 1], every arm's alpha
\* and beta are >= 1, hence > 0, and no step decreases them.
C7_BetaParametersValid ==
    [][AllRewardsInRange' =>
          \A a \in ArmSet :
             /\ alpha'[a] >= RS /\ beta'[a] >= RS
             /\ alpha'[a] > 0 /\ beta'[a] > 0
             /\ alpha'[a] >= alpha[a] /\ beta'[a] >= beta[a]]_vars

\* an arm has taken two updates with rewards in [0, 1], one of them below 1
C7_Witness ==
    /\ AllRewardsInRange
    /\ \E a \in ArmSet :
          /\ Len(rewards_history[a]) = 2
          /\ alpha[a] > RS
          /\ beta[a] > RS

\* ------------------------------------------------------------------------
\* Frame of the recommend calls
\* ------------------------------------------------------------------------
RecommendOps ==
    {"linucb.recommend", "thompson.recommend", "neural.recommend"} \cup Methods

PerArmEntriesKept ==
    /\ DOMAIN A' = ArmSet /\ DOMAIN b' = ArmSet
    /\ DOMAIN alpha' = ArmSet /\ DOMAIN beta' = ArmSet
    /\ DOMAIN pulls' = ArmSet /\ DOMAIN rewards_history' = ArmSet
    /\ DOMAIN networks' = ArmSet /\ DOMAIN updates' = ArmSet
    /\ DOMAIN history' = ArmSet

\* C8 as stated: no recommend call of LinUCB, Thompson, the neural bandit or
\* the hybrid changes any per-arm field, Thompson's pulls included, and no
\* operation removes an arm's entry.
C8_RecommendChangesNoArmState ==
    [][/\ ret'.op \in RecommendOps => UNCHANGED <<linVars, tsVars, nnVars>>
       /\ PerArmEntriesKept]_vars

\* C8 amended: a recommend call changes no per-arm field other than
\* Thompson's pulls; pulls of the returned arm grows by one exactly when
\* Thompson's recommend returns it, called directly or by the hybrid's
\* delegation; and no operation removes an arm's entry.
C8_RecommendChangesOnlyPulls ==
    [][/\ ret'.op \in RecommendOps =>
            /\ UNCHANGED <<linVars, nnVars, alpha, beta, rewards_history>>
            /\ pulls' = IF ret'.err = "none" /\ ret'.algo = "thompson"
                        THEN [pulls EXCEPT ![ret'.arm] = @ + 1]
                        ELSE pulls
       /\ ret'.op \notin RecommendOps => pulls' = pulls
       /\ PerArmEntriesKept]_vars

\* the hybrid's context_dependent recommend has delegated to Thompson after an
\* update, and the returned arm's pulls has grown
C8_Witness ==
    /\ ret.op = "context_dependent"
    /\ ret.algo = "thompson"
    /\ pulls[ret.arm] = 1
    /\ Observations > 0

\* ------------------------------------------------------------------------
\* Error handling of the bandits
\* ------------------------------------------------------------------------
\* C11: a recommend call with zero candidates, on a base bandit or through any
\* of the hybrid's three methods, raises an error, returns no arm and leaves
\* all state unchanged.
C11_EmptyCandidatesRaise ==
    [][(ret'.op \in RecommendOps /\ Len(ret'.contexts) = 0) =>
          /\ ret'.err # "none"
          /\ ret'.arm = "none"
          /\ UNCHANGED <<linVars, tsVars, nnVars, hybVars>>]_vars

\* after an update, context_dependent has raised on an empty contexts map
C11_Witness ==
    /\ ret.op = "context_dependent"
    /\ Len(ret.contexts) = 0
    /\ ret.err = "IndexError"
    /\ Observations > 0

\* a context of exactly n_features components, as update reshapes it
WellFormed(context) ==
    /\ EnsureColumnVector(context).shape = "col"
    /\ Len(context.v) = n_features

\* C12: a hybrid update whose context is not a vector of exactly n_features
\* components raises an error with LinUCB A and b, Thompson alpha and beta,
\* the neural weights and counters and the three performance histories all
\* as they were before the call.
C12_InvalidContextChangesNothing ==
    [][(ret'.op = "update" /\ ~WellFormed(ret'.contexts[1][2])) =>
          /\ ret'.err # "none"
          /\ UNCHANGED <<linVars, alpha, beta, rewards_history, nnVars,
                         performance>>]_vars

\* the contexts maps the round trip is compared on
RoundTripMaps == NeuralMaps

\* C13: save_model followed by load_model into a freshly constructed NeuralUCB
\* yields an instance whose recommend returns, for every contexts map, the
\* arm the original returns.
C13_SaveLoadRoundTrip ==
    [][(ret.op = "neural.save_model" /\ ret'.op = "neural.load_model"
        /\ ret'.err = "none") =>
          \A contexts \in RoundTripMaps :
             NeuralRecommendOn(loaded'.networks, loaded'.updates, contexts).arm
               = NeuralRecommendOn(networks', updates', contexts).arm]_vars

\* ------------------------------------------------------------------------
\* Properties of the multi-objective reward calculator
\* ------------------------------------------------------------------------
\* the candidates of the last pareto_optimal_selection call with their
\* objectives and rewards
Scored == SkillObjectives(args.candidate_skills, args.learner, args.noise)

\* the places of the scored candidates sc that no other place's candidate
\* equals or betters in all objectives and betters in one
NonDominated(sc) ==
    {i \in 1..Len(sc) :
        ~\E j \in 1..Len(sc) :
            /\ j # i
            /\ \A o \in ObjectiveSet : sc[j].objectives[o] >= sc[i].objectives[o]
            /\ \E o \in ObjectiveSet : sc[j].objectives[o] > sc[i].objectives[o]}

\* C14: pareto_optimal_selection returns the first top_k of the non-dominated
\* candidates in non-increasing order of reward: every returned entry is a
\* non-dominated candidate, each taken once, no candidate left out has a
\* higher reward than a returned one, all non-dominated candidates are
\* returned when there are at most top_k, and the result is non-empty for a
\* non-empty candidate list and top_k >= 1.
C14_ParetoTopK ==
    ret.op = "pareto_optimal_selection" =>
        \A sc \in {Scored} : \A nd \in {NonDominated(sc)} :
            /\ Len(out) = Min(args.top_k, Cardinality(nd))
            /\ \A i \in 1..(Len(out) - 1) : out[i].reward >= out[i + 1].reward
            /\ \E f \in [1..Len(out) -> nd] :
                  /\ \A i, j \in 1..Len(out) : i # j => f[i] # f[j]
                  /\ \A i \in 1..Len(out) : out[i] = sc[f[i]]
                  /\ \A p \in nd :
                        (\A i \in 1..Len(out) : f[i] # p) =>
                            \A i \in 1..Len(out) : sc[p].reward <= out[i].reward
            /\ (Len(args.candidate_skills) > 0 /\ args.top_k >= 1) => Len(out) >= 1

\* three candidates of which one is dominated and two have equal objectives,
\* top_k = 2: both survivors are returned
C14_Witness ==
    /\ ret.op = "pareto_optimal_selection"
    /\ Len(args.candidate_skills) = 3
    /\ Cardinality(NonDominated(Scored)) = 2
    /\ \E i, j \in NonDominated(Scored) :
          i # j /\ Scored[i].objectives = Scored[j].objectives
    /\ args.top_k = 2
    /\ Len(out) = 2

\* the fallback the documentation gives for a skill without metadata:
\* difficulty 0.5, learning_time 100 hours, demand 0.5
DocumentedFallback ==
    [difficulty |-> ONE \div 2, learning_time |-> 100, demand |-> ONE \div 2]

\* C15: for a skill that has no row in the skill metadata table, the
\* calculator's time-efficiency, difficulty-match and market-demand scores are
\* the scores of the documented fallback (difficulty 0.5, learning_time 100,
\* demand 0.5).
C15_DocumentedFallback ==
    (ret.op = "calculate_multi_objective_reward" /\ args.skill \notin KnownSkills) =>
        /\ out.objectives.time_efficiency
              = TimeEfficiencyOf(DocumentedFallback.learning_time, args.learner)
        /\ out.objectives.difficulty_match
              = DifficultyMatchOf(DocumentedFallback.difficulty, args.learner)
        /\ out.objectives.market_demand = DocumentedFallback.demand

\* ------------------------------------------------------------------------
\* Properties of the cold-start solver
\* ------------------------------------------------------------------------
Returned == ret.op = "initialize_new_user_bandit" /\ ret.err = "none"

\* a 'linucb' snapshot is stored for the cluster the last call assigned
SnapshotStored ==
    /\ out.cluster_id \in DOMAIN cluster_bandit_params
    /\ "linucb" \in DOMAIN cluster_bandit_params[out.cluster_id]

Snapshot == cluster_bandit_params[out.cluster_id]["linucb"]

\* the returned A and b of a skill are the pure fresh prior: identity and zero
IsFresh(skill) ==
    /\ out.A[skill].val = [i \in 1..n_features |->
                             [j \in 1..n_features |-> IF i = j THEN 10 ELSE 0]]
    /\ out.b[skill].val = [i \in 1..n_features |-> 0]

\* the returned A and b of a skill are 0.7 * snapshot + 0.3 * identity and
\* 0.7 * snapshot
IsBlend(skill) ==
    /\ skill \in DOMAIN Snapshot.A
    /\ skill \in DOMAIN Snapshot.b
    /\ out.A[skill].val = [i \in 1..n_features |->
                             [j \in 1..n_features |->
                                 7 * Snapshot.A[skill][i][j] + (IF i = j THEN 3 ELSE 0)]]
    /\ out.b[skill].val = [i \in 1..n_features |-> 7 * Snapshot.b[skill][i]]

\* a symmetric 2 x 2 matrix with positive leading minors
IsSPD(M) == IsSymmetric(M) /\ M[1][1] > 0 /\ Det(M) > 0

\* C16: initialize_new_user_bandit returns confidence 0.7 with, for every
\* requested skill, A = 0.7 * snapshot A + 0.3 * identity and
\* b = 0.7 * snapshot b when a 'linucb' snapshot is stored for the assigned
\* cluster, and confidence 0.0 with A = identity and b = 0 otherwise; a result
\* made only of fresh priors carries confidence 0.0; every returned A is
\* symmetric positive-definite.
C16_BlendOrFresh ==
    Returned =>
        /\ SnapshotStored =>
              /\ out.confidence = (7 * ONE) \div 10
              /\ \A skill \in DOMAIN out.A : IsBlend(skill)
        /\ ~SnapshotStored =>
              /\ out.confidence = 0
              /\ \A skill \in DOMAIN out.A : IsFresh(skill)
        /\ (\A skill \in DOMAIN out.A : IsFresh(skill)) => out.confidence = 0
        /\ \A skill \in DOMAIN out.A : IsSPD(out.A[skill].val)

\* the event a returned initialize_new_user_bandit call logs
LoggedEvent ==
    [learner_id |-> args.new_learner.id, cluster_id |-> out.cluster_id,
     transfer_success |-> (out.confidence = (7 * ONE) \div 10),
     confidence |-> out.confidence]

\* the log changes only by one event appended by a returned
\* initialize_new_user_bandit call
LogStep ==
    /\ (ret'.op = "initialize_new_user_bandit" /\ ret'.err = "none") =>
          cold_start_history' = Append(cold_start_history, LoggedEvent')
    /\ ~(ret'.op = "initialize_new_user_bandit" /\ ret'.err = "none") =>
          cold_start_history' = cold_start_history

SuccessfulEvents ==
    {i \in 1..Len(cold_start_history) : cold_start_history[i].transfer_success}

\* what get_cold_start_statistics reports about a log
ReportsLog ==
    /\ DOMAIN out = {"total_cold_starts", "successful_transfers", "transfer_rate",
                     "avg_confidence", "cluster_distribution"}
    /\ out.total_cold_starts = Len(cold_start_history)
    /\ out.successful_transfers = Cardinality(SuccessfulEvents)
    /\ SuccessfulEvents =
          {i \in 1..Len(cold_start_history) :
              cold_start_history[i].confidence = (7 * ONE) \div 10}
    /\ out.transfer_rate
          = (Cardinality(SuccessfulEvents) * ONE) \div Len(cold_start_history)

\* C17: every initialize_new_user_bandit call that returns appends exactly
\* one event (learner id, cluster id, transfer_success, confidence) to the
\* cold-start log and no other operation changes the log;
\* get_cold_start_statistics always reports total_cold_starts equal to the
\* number of events, successful_transfers equal to the number of events with
\* transfer_success (those with confidence 0.7) and transfer_rate equal to
\* their quotient.
C17_LogAndStatistics ==
    [][/\ LogStep
       /\ ret'.op = "get_cold_start_statistics" => ReportsLog'
      ]_vars

\* C17 as the program has it: the log as above; get_cold_start_statistics
\* reports these figures when the log holds at least one event, and returns an
\* empty dict, with no total_cold_starts entry, when the log is empty.
C17_LogAndStatisticsOfNonEmptyLog ==
    [][/\ LogStep
       /\ ret'.op = "get_cold_start_statistics" =>
             IF Len(cold_start_history') = 0 THEN out' = <<>> ELSE ReportsLog'
      ]_vars

\* statistics of a log of two events, one with a transfer and one without
C17_Witness ==
    /\ ret.op = "get_cold_start_statistics"
    /\ Len(cold_start_history) = 2
    /\ out.successful_transfers = 1
    /\ out.transfer_rate = ONE \div 2

\* the (cluster, bandit type) entries of cluster_bandit_params other than the
\* addressed one are the same before and after the step
OtherEntriesKept(cluster_id, bandit_type) ==
    \A c \in Clusters, t \in BanditTypes :
        (c # cluster_id \/ t # bandit_type) =>
            LET has(p) == c \in DOMAIN p /\ t \in DOMAIN p[c]
            IN /\ has(cluster_bandit_params') <=> has(cluster_bandit_params)
               /\ has(cluster_bandit_params) =>
                     cluster_bandit_params'[c][t] = cluster_bandit_params[c][t]

\* C18: find_similar_cluster, transfer_bandit_parameters,
\* initialize_new_user_bandit and warm_start_recommendation leave
\* cluster_profiles and cluster_bandit_params unchanged; only
\* store_cluster_parameters changes cluster_bandit_params, and only the
\* addressed (cluster, bandit type) entry; the A and b that
\* initialize_new_user_bandit returns are new arrays, so an in-place update of
\* them leaves every stored snapshot as it was.
C18_QueriesKeepClusterState ==
    [][/\ ret'.op \in {"find_similar_cluster", "transfer_bandit_parameters",
                      "initialize_new_user_bandit", "warm_start_recommendation"} =>
             UNCHANGED <<cluster_profiles, cluster_bandit_params>>
       /\ cluster_bandit_params' # cluster_bandit_params =>
             /\ ret'.op = "store_cluster_parameters"
             /\ OtherEntriesKept(args'.cluster_id, args'.bandit_type)
       /\ (ret'.op = "initialize_new_user_bandit" /\ ret'.err = "none") =>
             \A skill \in DOMAIN out'.A :
                 ~out'.A[skill].alias /\ ~out'.b[skill].alias
       /\ ret'.op = "update_returned" => UNCHANGED cluster_bandit_params
      ]_vars

\* a blended A was updated in place and the snapshot it was made from is
\* still stored
C18_Witness ==
    /\ ret.op = "update_returned"
    /\ out.confidence = (7 * ONE) \div 10
    /\ SnapshotStored
    /\ "Python" \in DOMAIN out.A
    /\ out.A["Python"].val[1][1] = 7 * Snapshot.A["Python"][1][1] + 3 + 10

\* ------------------------------------------------------------------------
\* Properties of the explainable recommender
\* ------------------------------------------------------------------------
Explained == ret.op = "explain_recommendation"

\* the value the caller gave for a skill
GivenScore(skill) == ScoreGet(args.all_candidate_scores, skill, Absent)

\* C19: explain_recommendation returns an explanation without raising for
\* every all_candidate_scores map (empty, with values that are no numbers or
\* None, without the recommended skill) at the levels simple, detailed and
\* technical; a score that is no number and a missing score of the
\* recommended skill count as 0.0.
C19_ExplainNeverRaises ==
    (Explained /\ args.level \in {"simple", "detailed", "technical"}) =>
        /\ ret.err = "none"
        /\ \A k \in 1..Len(out.alternatives) :
              GivenScore(out.alternatives[k].skill).kind # "float" =>
                  out.alternatives[k].score = 0
        /\ (args.level = "technical"
               /\ GivenScore(args.recommended_skill).kind # "float") =>
              out.technical_details.ucb_score = 0

\* the scores of the last call after coercion
CoercedScores == SafeScores(args.all_candidate_scores)

\* C20: for every level, also an unrecognised one, a returned explanation has
\* 'alternatives' and 'why_not'.  alternatives holds the min(3, number of
\* other candidates) best-scored candidates other than the recommended skill,
\* in non-increasing order of score, never the recommended skill.  why_not has
\* at most 2 entries; each names one of the two best-scored candidates whose
\* score is strictly below the recommended skill's, and that candidate's score
\* gap exceeds 0.2 or its learning time exceeds 200 hours.
C20_AlternativesAndWhyNot ==
    (Explained /\ ret.err = "none") =>
        \A safe \in {CoercedScores} :
            LET recommended == args.recommended_skill
                rec_score == ScoreGet(safe, recommended, 0)
                others == {i \in 1..Len(safe) : safe[i].skill # recommended}
                lower == {i \in others : safe[i].score < rec_score}
                alts == out.alternatives
                listed == {i \in others : \E k \in 1..Len(alts) : alts[k].skill = safe[i].skill}
            IN /\ {"alternatives", "why_not"} \subseteq DOMAIN out
               /\ Len(alts) = Min(3, Cardinality(others))
               /\ Cardinality(listed) = Len(alts)
               /\ \A k \in 1..Len(alts) :
                     /\ alts[k].skill # recommended
                     /\ alts[k].score = ScoreGet(safe, alts[k].skill, -1)
               /\ \A k \in 1..(Len(alts) - 1) : alts[k].score >= alts[k + 1].score
               /\ \A i \in others \ listed :
                     \A k \in 1..Len(alts) : safe[i].score <= alts[k].score
               /\ Len(out.why_not) <= 2
               /\ \A k \in 1..Len(out.why_not) :
                     \E i \in lower :
                        /\ safe[i].skill = out.why_not[k].skill
                        /\ Cardinality({j \in lower : safe[j].score > safe[i].score}) < 2
                        /\ \/ rec_score - safe[i].score > ONE \div 5
                           \/ /\ safe[i].skill \in KnownSkills
                              /\ SkillMetadata[safe[i].skill].learning_time > 200

\* an unrecognised level, four other candidates of which three are listed,
\* and one of the two next-best candidates left out for its learning time
C20_Witness ==
    /\ Explained
    /\ ret.err = "none"
    /\ args.level = "expert"
    /\ args.recommended_skill = "Python"
    /\ Len(args.all_candidate_scores) = 5
    /\ Len(out.alternatives) = 3
    /\ Len(out.why_not) = 1
    /\ out.why_not[1] = [skill |-> "Kubernetes",
                         reasons |-> <<"requires more time investment">>]

\* ------------------------------------------------------------------------
\* Properties of an engine that several callers share
\* ------------------------------------------------------------------------
\* I + sum of x * x^T over a sequence of updates
SumOfOuter(updates_of_arm) ==
    [i \in 1..n_features |->
       [j \in 1..n_features |->
          Identity(n_features)[i][j]
            + SumSeq([k \in 1..Len(updates_of_arm) |->
                        updates_of_arm[k].context.v[i] * updates_of_arm[k].context.v[j]])]]

\* sum of r * x over a sequence of updates
SumOfRewarded(updates_of_arm) ==
    [i \in 1..n_features |->
       SumSeq([k \in 1..Len(updates_of_arm) |->
                 updates_of_arm[k].reward * updates_of_arm[k].context.v[i]])]

\* the update calls on an arm that have executed their first statement only
InFlightOn(arm) == {t \in Threads : inflight[t].pc = "b" /\ inflight[t].arm = arm}

\* both of an arm's arrays reflect exactly the completed updates
Consistent(arm) ==
    /\ A[arm] = SumOfOuter(completed[arm])
    /\ b[arm] = SumOfRewarded(completed[arm])

\* A holds the x * x^T of some update whose r * x is not yet in b
Torn(arm) ==
    /\ b[arm] = SumOfRewarded(completed[arm])
    /\ A[arm] # SumOfOuter(completed[arm])
    /\ \E order \in [1..Cardinality(InFlightOn(arm)) -> InFlightOn(arm)] :
          /\ \A i, j \in DOMAIN order : i # j => order[i] # order[j]
          /\ A[arm] = SumOfOuter(completed[arm]
                                  \o [i \in DOMAIN order |->
                                        [reward |-> inflight[order[i]].reward,
                                         context |-> inflight[order[i]].context]])

\* a step of LinUCB.recommend
RecommendStep ==
    /\ ret'.op = "linucb.recommend"
    /\ UNCHANGED <<A, b, inflight, completed>>

\* C21: a recommend call that overlaps no update call (every call a critical
\* section) computes each score from an (A, b) that holds exactly the completed
\* updates of the arm, A = I + sum x * x^T and b = sum r * x; the engine takes
\* no lock, and a recommend call that runs while an update of the arm is in
\* progress computes the score from an A that holds the new x * x^T and a b
\* that does not hold r * x.
C21_ScoresFromCompletedUpdates ==
    [][RecommendStep =>
         \A i \in 1..Len(ret'.contexts) :
            LET arm == ret'.contexts[i][1]
            IN /\ InFlightOn(arm) = {} => Consistent(arm)
               /\ InFlightOn(arm) # {} => Torn(arm)
               /\ ret'.err = "none" =>
                     ret'.scores[i] = LinScore(A[arm], b[arm], ret'.contexts[i][2]).p
      ]_vars

\* a recommend call returned while an update of the same arm was between its
\* two statements, with a score that neither the completed updates nor the
\* completed updates and the one in progress give
C21_Witness ==
    /\ ret.op = "linucb.recommend"
    /\ ret.err = "none"
    /\ \E t \in Threads :
          LET call == inflight[t]
              arm == ret.contexts[1][1]
              after == Append(completed[arm],
                              [reward |-> call.reward, context |-> call.context])
          IN /\ call.pc = "b"
             /\ call.arm = arm
             /\ Torn(arm)
             /\ ret.scores[1] = LinScore(A[arm], b[arm], ret.contexts[1][2]).p
             /\ ret.scores[1] # LinScore(SumOfOuter(completed[arm]),
                                         SumOfRewarded(completed[arm]),
                                         ret.contexts[1][2]).p
             /\ ret.scores[1] # LinScore(SumOfOuter(after), SumOfRewarded(after),
                                         ret.contexts[1][2]).p

\* ------------------------------------------------------------------------
\* Routing of context_dependent
\* ------------------------------------------------------------------------
\* the variance of the components of x is above 1/2: with m the mean,
\* sum (x_i - m)^2 / n > 1/2
HighVariance(x) ==
    LET n == Len(x)
        total == SumSeq(x)
    IN 2 * SumSeq([i \in 1..n |-> (n * x[i] - total) * (n * x[i] - total)]) > n * n * n

C23_StatisticsOfCurrentParameters ==
    ret.op = "thompson.get_statistics" =>
        LET a == alpha[args.skill]
            bb == beta[args.skill]
        IN /\ (a + bb) * out.mean <= a * ONE
           /\ a * ONE < (a + bb) * (out.mean + 1)
           /\ out.variance \div 10
                 = ((a * bb * RS * ONE) \div ((a + bb) * (a + bb) * (a + bb + RS))) \div 10

\* ------------------------------------------------------------------------
\* The head-to-head comparison of a detailed explanation
\* ------------------------------------------------------------------------
\* the candidates other than the recommended skill that no other such
\* candidate outscores
BestOthers(safe, recommended) ==
    {safe[i].skill : i \in {i \in 1..Len(safe) :
        /\ safe[i].skill # recommended
        /\ \A j \in 1..Len(safe) :
              safe[j].skill # recommended => safe[j].score <= safe[i].score}}

\* C24: at the levels detailed and technical, whenever the scores map has at
\* least two candidates, vs_alternative compares the recommended skill with
\* the highest-scoring candidate other than the recommended skill, never with
\* the recommended skill itself, also when the recommended skill is not the
\* top-scoring entry or scores are tied.
C24_ComparedWithRunnerUp ==
    (Explained /\ ret.err = "none" /\ args.level \in {"detailed", "technical"}
        /\ Len(args.all_candidate_scores) >= 2) =>
        /\ "vs_alternative" \in DOMAIN out.detailed_breakdown
        /\ RunnerUp(CoercedScores) # args.recommended_skill
        /\ \E other \in BestOthers(CoercedScores, args.recommended_skill) :
              /\ RunnerUp(CoercedScores) = other
              /\ out.detailed_breakdown.vs_alternative
                     = CompareSkills(args.recommended_skill, other)
\* ------------------------------------------------------------------------
\* The confidence an explanation reports
\* ------------------------------------------------------------------------
\* C30: the confidence field of an explanation equals the confidence passed
\* to explain_recommendation whenever a number is passed, 0.0 included, and
\* is the default 0.8 only when no confidence is passed.
C30_ConfidencePassedThrough ==
    (Explained /\ ret.err = "none") =>
        out.confidence = IF args.confidence.kind = "float" THEN args.confidence.v
                         ELSE (8 * ONE) \div 10
\* ------------------------------------------------------------------------
\* The fan-out of an observation to the three bandits
\* ------------------------------------------------------------------------
\* the rewards of a sequence of observations
RewardsOf(observations) == [k \in 1..Len(observations) |-> observations[k].reward]

\* every bandit holds exactly the observations of the arm
Absorbed(arm) ==
    \A obs \in {completed[arm]} :
        /\ A[arm] = SumOfOuter(obs)
        /\ b[arm] = SumOfRewarded(obs)
        /\ alpha[arm] = RS + SumSeq(RewardsOf(obs))
        /\ beta[arm] = RS + SumSeq([k \in 1..Len(obs) |-> RS - obs[k].reward])
        /\ updates[arm] = Len(obs)
        /\ history[arm] = RewardsOf(obs)
        /\ rewards_history[arm] = RewardsOf(obs)
        /\ obs = <<>> => networks[arm] = FirstNetwork

\* a hybrid update call that returns appends its reward to each performance
\* history
AppendsReward ==
    ret'.op = "update" =>
        \E arm \in ArmSet :
            /\ Len(completed'[arm]) = Len(completed[arm]) + 1
            /\ \A k \in AlgoSet :
                  performance'[k]
                     = Append(performance[k], completed'[arm][Len(completed'[arm])].reward)

\* C25: after any sequence of successful hybrid update calls every bandit
\* has absorbed the same observations per arm: A = I + sum x * x^T,
\* b = sum r * x, alpha = 1 + sum r, beta = 1 + sum (1 - r),
\* neural.updates = len(neural.history) = len(thompson.rewards_history) = the
\* number of updates of the arm; the three performance histories have one
\* entry per call in call order; an arm never updated keeps its
\* construction-time state.
C25_SameObservationsEverywhere ==
    /\ [](/\ \A arm \in ArmSet : Absorbed(arm)
          /\ \A k \in AlgoSet :
                /\ performance[k] = performance["linucb"]
                /\ Len(performance[k])
                      = SumSeq([i \in 1..Len(Arms) |-> Len(completed[Arms[i]])]))
    /\ [][AppendsReward]_vars

\* one arm updated twice with different contexts and rewards, the other arm
\* never updated
C25_Witness ==
    /\ Len(completed["Python"]) = 2
    /\ completed["Python"][1].context # completed["Python"][2].context
    /\ completed["Python"][1].reward # completed["Python"][2].reward
    /\ completed["SQL"] = <<>>
    /\ performance["linucb"] = RewardsOf(completed["Python"])
\* ------------------------------------------------------------------------
\* The meta-learning trigger under two callers
\* ------------------------------------------------------------------------
\* no caller has a call in progress
AllIdle == \A t \in Threads : inflight[t].pc = "idle"

\* at most one update call is in progress
Serialized == \E t \in Threads : \A u \in Threads \ {t} : inflight[u].pc = "idle"

\* the update calls that have returned
CompletedUpdates == SumSeq([i \in 1..Len(Arms) |-> Len(completed[Arms[i]])])

\* C26: with update calls serialized, the number of meta-learning steps
\* after n completed updates is floor(n / 20); the trigger is correct only
\* then: when two update calls interleave between the appends to the
\* performance histories and the test of the history length, the step for a
\* multiple of 20 is skipped or runs twice.
C26_TriggerNeedsSingleWriter ==
    []Serialized => [](AllIdle => Len(weight_history) = CompletedUpdates \div 20)

\* two calls both appended before either tested: after 21 completed updates
\* no meta-learning step has run
C26_Witness ==
    /\ AllIdle
    /\ CompletedUpdates = 21
    /\ Len(weight_history) = 0

\* the 19th and the 20th call both tested a history of 20: two steps after
\* 20 completed updates
C26_WitnessTwice ==
    /\ AllIdle
    /\ CompletedUpdates = 20
    /\ Len(weight_history) = 2
\* ------------------------------------------------------------------------
\* The best performer
\* ------------------------------------------------------------------------
\* a best_performer call has returned
BestPerformerReturned == ret.op = "best_performer" /\ ret.err = "none"

\* C28: recommend with method best_performer computes the same recent
\* performance for all three algorithms, 0.5 each with no history and the
\* mean of the last 50 rewards otherwise, reports selected_algorithm =
\* 'linucb' and returns LinUCB's choice; it never delegates to Thompson
\* sampling or to the neural bandit.
C28_BestPerformerIsLinUCB ==
    /\ [](BestPerformerReturned =>
            /\ \A i \in 1..Len(Algos) :
                  ret.scores[i] = IF Observations = 0 THEN ONE \div 2
                                  ELSE Mean(LastK(performance["linucb"], 50))
            /\ ret.algo = "linucb"
            /\ ret.arm = LinRecommendResult(ret.contexts).arm)
    /\ [][ret'.op = "best_performer" => pulls' = pulls]_vars

\* a call on a history longer than the window whose last 50 rewards are not
\* all equal
C28_Witness ==
    /\ BestPerformerReturned
    /\ Observations > 50
    /\ \E i \in (Observations - 49)..Observations :
          performance["linucb"][i] # performance["linucb"][Observations]
    /\ performance["linucb"][Observations - 50] # performance["linucb"][Observations]

\* a call before the first observation
C28_WitnessNoHistory == BestPerformerReturned /\ Observations = 0
\* ------------------------------------------------------------------------
\* Meta-learning on identical histories
\* ------------------------------------------------------------------------
\* the target (1/3, 1/3, 1/3)
UniformTarget == [k \in AlgoSet |-> ONE \div 3]

\* a weight moves toward 1/3 and not past it, up to two units of rounding
TowardThird(old, new) ==
    IF old >= ONE \div 3
    THEN ONE \div 3 - 2 <= new /\ new <= old + 2
    ELSE old - 2 <= new /\ new <= ONE \div 3 + 2

\* C27: the three performance histories are identical lists in every
\* reachable state, so once at least 100 observations are recorded every
\* meta-learning step uses the target (1/3, 1/3, 1/3) and sets each weight to
\* 0.9 * old + 1/30: every weight moves monotonically toward 1/3, by a
\* change that is the same for every sequence of observed rewards.
C27_UniformTargetFrom100 ==
    /\ [](\A k \in AlgoSet : performance[k] = performance["linucb"])
    /\ [][(MetaStep /\ Len(performance'["linucb"]) >= 100) =>
            /\ weights' = Blended(weights, UniformTarget)
            /\ \A k \in AlgoSet :
                  /\ Abs(10 * weights'[k] - (9 * weights[k] + ONE \div 3)) <= 20
                  /\ TowardThird(weights[k], weights'[k])]_vars

\* two steps on at least 100 observations have run, on rewards that changed
\* during the run, from weights more than 0.1 away from 1/3
C27_Witness ==
    /\ Len(weight_history) = 6
    /\ \E i \in 1..Observations : performance["linucb"][i] # performance["linucb"][1]
    /\ \E k \in AlgoSet : Abs(weight_history[4][k] - ONE \div 3) > ONE \div 10
    /\ weight_history[6] # weight_history[5]
\* ------------------------------------------------------------------------
\* Cold-start calls before and after the fit
\* ------------------------------------------------------------------------
\* the calls that assign a learner to a cluster
ClusterCalls ==
    {"find_similar_cluster", "initialize_new_user_bandit", "warm_start_recommendation"}

\* a step of one of these calls
ClusterCallStep == ret'.op \in ClusterCalls

\* the call raised the error, returned no cluster id, no parameters and no
\* skill, and logged nothing
Raised(error) ==
    /\ ret'.err = error
    /\ CASE ret'.op = "find_similar_cluster" -> out' = -1
         [] ret'.op = "initialize_new_user_bandit" -> out' = <<>>
         [] OTHER -> out' = "none"
    /\ cold_start_history' = cold_start_history

\* the learner of the call has a target_role
HasRole == "target_role" \in DOMAIN args'.new_learner

====
